---- MODULE Spec2Model ----
(***************************************************************************)
(* Streaming delivery pipeline of the chat assistant:                      *)
(*   - ThoughtTagFilter / FinalAnswerFilter (src/services/agent_sync.py),  *)
(*     the character-stream state machines that strip hidden reasoning     *)
(*     and isolate the final answer;                                       *)
(*   - the _stream generator of run_agent_streaming, which feeds the model *)
(*     chunks to the filter and yields token / done events;                *)
(*   - the thread + queue bridge of run_agent_streaming, driven on the     *)
(*     process-wide event loop of src/services/store_sync.py.              *)
(*                                                                         *)
(* Text is a sequence of one-character strings.  Indices of the string     *)
(* helpers are 0-based, as in the Python source, so that the loops read    *)
(* like the code.                                                          *)
(***************************************************************************)
EXTENDS Integers, Sequences, FiniteSets, TLC

VARIABLES
    \* ---- text pipeline (SpecTag, SpecStream) ----
    text,           \* the whole model output of the run (the input drawn in Init)
    pos,            \* number of characters of text already delivered in chunks
    tf,             \* a ThoughtTagFilter instance: [in_tag, carry]
    tfRet,          \* what the last tf.feed returned
    tfOut,          \* concatenation of everything tf.feed has returned
    ff,             \* _stream's final_filter: [hidden, carry, in_final, done, seen_final]
    raw_response,   \* _stream local
    full_response,  \* _stream local
    visible,        \* _stream local: result of the last final_filter.feed
    lastEvent,      \* the event _stream yielded last: [type, text]
    spc,            \* position of _stream: "loop" | "done"
    \* ---- bridge (Spec, LiveSpec) ----
    tpc,            \* per turn: position of the thread run_async_stream
    gpc,            \* per turn: position of the coroutine stream_to_queue / _stream
    cpc,            \* per turn: position of the consumer loop of run_agent_streaming
    event_queue,    \* per turn: the queue.Queue of the call
    loop_running,   \* the process-wide event loop: 0 when idle, else the turn driving it
    nloop,          \* per turn: model/tool events already taken from astream_events
    nsave,          \* per turn: memories of `extracted` still to be saved
    produced,       \* per turn (history): events _stream has yielded
    puts,           \* per turn (history): everything ever put on event_queue
    observed,       \* per turn (history): events the consumer has yielded to its caller
    timedOut,       \* per turn (history): the consumer's get raised queue.Empty
    \* ---- the caller of the bridge (SpecIdle) ----
    idled,          \* per turn (history): the caller let more than the per-item
                    \* timeout pass between two next() calls
    \* ---- memory pipeline (SpecMem) ----
    message,        \* the user message of the turn
    mstore,         \* the records of the user's partition of the store
    mpc,            \* position in extract_memories_with_fallback / the save loop of _stream
    memories,       \* extract_memories_with_fallback local
    candidates,     \* (history) memories as the extraction, primary or fallback, left it
    unique_memories,\* extract_memories_with_fallback local
    midx,           \* index of the candidate the running for loop is at
    primary,        \* (history) how extract_memories_llm ended: "none" before
    phases,         \* (history) the phases the pipeline has entered
    checks,         \* (history) per dedup check: candidate, search results or failure, verdict
    mevents,        \* (history) the events _stream has yielded since "done"
    done_event,     \* the done event _stream yielded, NoDone before it
    \* ---- the model loop of _stream and its event source (SpecTools) ----
    source,         \* (history) the events astream_events has produced
    running,        \* the tools in execution: started and not ended
    current_tool,   \* _stream local
    yielded,        \* (history) per source event, what _stream yielded for it
    \* ---- the two filters fed side by side (SpecFeed) ----
    emptyFed,       \* (history) the last feed was given the empty text
    \* ---- the pattern extractor (SpecPat) ----
    findall,        \* per type and pattern: what re.findall gives on the user message
    ppc,            \* the loop extract_memories_from_message is in, "return" after both
    pattern,        \* index in its list of the pattern the loop is at
    found,          \* extract_memories_from_message local `memories`
    consulted,      \* (history) the patterns re.findall was called with
    \* ---- the calendar tool (SpecBook) ----
    bookings,       \* the module-level list _bookings
    call,           \* (history) the arguments of the call of book_meeting_room
    outcome,        \* (history) how the call ended: raised, or the time of its result
    \* ---- deletion of a memory (SpecDel) ----
    deleted_key,    \* (history) the key delete_memory was called with
    deletion,       \* (history) how the call ended: whether adelete raised, what was returned
    \* ---- initialization of store and agent (SpecInit) ----
    globals,        \* the module globals _store, _agent, _initialized; the loop running
    effects,        \* (history) connections opened, loads of the presets, agents created
    ipc,            \* per calling thread: its position
    got,            \* per calling thread: the function it called and what it got
    \* ---- update of a memory (SpecUpd) ----
    update,         \* (history) the arguments of the call of update_memory
    updated         \* (history) what the call returned: {} for None, {value} for a dict

textVars == <<text, pos, tf, tfRet, tfOut, ff, raw_response, full_response, visible, lastEvent,
              spc>>
bridgeVars == <<tpc, gpc, cpc, event_queue, loop_running, nloop, nsave, produced, puts,
                observed, timedOut>>
idleVars == <<idled>>
memVars == <<message, mstore, mpc, memories, candidates, unique_memories, midx, primary, phases, checks,
             mevents, done_event>>
toolVars == <<source, running, current_tool, yielded>>
feedVars == <<emptyFed>>
patVars == <<findall, ppc, pattern, found, consulted>>
bookVars == <<bookings, call, outcome>>
delVars == <<deleted_key, deletion>>
initVars == <<globals, effects, ipc, got>>
updVars == <<update, updated>>
lateVars == <<initVars, updVars>>
unitVars == <<toolVars, feedVars, patVars, bookVars, delVars, lateVars>>
vars == <<textVars, bridgeVars, idleVars, memVars, unitVars>>

----------------------------------------------------------------------------
(* Bounds *)

\* Number of pieces a model output is assembled from.
MaxPieces == 3

\* Events the model loop of _stream yields in one turn, at most.
MaxLoopEvents == 1

\* Memories one extraction returns, at most.
MaxSaved == 1

\* Candidates the model-based extractor returns for one message, at most.
MaxCandidates == 2

\* Records of another type than the candidate's that the partition holds, at most.
MaxOthers == 5

\* Events the event source of a turn produces, at most.
MaxSource == 4

\* Patterns of the pattern extractor that match one user message, at most.
MaxMatches == 2

\* Number of pieces a time argument of book_meeting_room is assembled from.
MaxTimePieces == 4

\* Memories that survive the dedup of one message and reach the save loop, at most.
MaxSurvivors == 3

----------------------------------------------------------------------------
(* String helpers, with Python's 0-based indices *)

Empty == << >>

\* s[a:b] for 0 <= a <= b <= len(s)
Slice(s, a, b) == SubSeq(s, a + 1, b)

\* s[a:]
SliceFrom(s, a) == SubSeq(s, a + 1, Len(s))

SetMin(S) == CHOOSE x \in S : \A y \in S : x <= y

SetMax(S) == CHOOSE x \in S : \A y \in S : x >= y

\* s.find(p, i): lowest index >= i at which p occurs in s, -1 if none
Find(s, p, i) ==
    LET hits == {k \in i..(Len(s) - Len(p)) : SubSeq(s, k + 1, k + Len(p)) = p}
    IN  IF hits = {} THEN -1 ELSE SetMin(hits)

\* s.rfind("<"): highest index of "<" in s, -1 if none
RFindLt(s) ==
    LET hits == {k \in 0..(Len(s) - 1) : s[k + 1] = "<"}
    IN  IF hits = {} THEN -1 ELSE SetMax(hits)

\* s.startswith(p)
StartsWith(s, p) == Len(p) <= Len(s) /\ Slice(s, 0, Len(p)) = p

IsPrefix(p, s) == StartsWith(s, p)

----------------------------------------------------------------------------
(* Tag literals *)

Think == <<"t", "h", "i", "n", "k">>

Analysis == <<"a", "n", "a", "l", "y", "s", "i", "s">>

Final == <<"f", "i", "n", "a", "l">>

\* ThoughtTagFilter.__init__: tags = ("think", "analysis"), in configuration order
Tags == <<Think, Analysis>>

\* self._in_tag = None (None and "" are both false in `if self._in_tag`)
None == Empty

\* f"<{t}>"
OpenTag(t) == <<"<">> \o t \o <<">">>

\* f"</{t}>"
CloseTag(t) == <<"<", "/">> \o t \o <<">">>

----------------------------------------------------------------------------
(* ThoughtTagFilter *)

\* ThoughtTagFilter.__init__
TagFilterInit == [in_tag |-> None, carry |-> Empty]

\* Mutant of split_partial_tag: whatever follows the last "<" is held back.
split_at_last_lt(src) ==
    LET last_lt == RFindLt(src)
    IN  IF last_lt = -1
        THEN [safe |-> src, carry |-> Empty]
        ELSE [safe |-> Slice(src, 0, last_lt), carry |-> SliceFrom(src, last_lt)]

\* split_partial_tag(src) -> (safe, carry)
split_partial_tag(src) ==
    LET last_lt == RFindLt(src)
        tail == SliceFrom(src, last_lt)
    IN  IF last_lt = -1
        THEN [safe |-> src, carry |-> Empty]
        ELSE IF \E n \in 1..Len(Tags) :
                    \/ StartsWith(OpenTag(Tags[n]), tail)
                    \/ StartsWith(CloseTag(Tags[n]), tail)
             THEN [safe |-> Slice(src, 0, last_lt), carry |-> tail]
             ELSE [safe |-> src, carry |-> Empty]

\* Mutant of BestStep: only opening tags are markers.
BestStepOpenOnly(best, s, i, t) ==
    LET op == Find(s, OpenTag(t), i)
    IN  IF op # -1 /\ (best.pos = -1 \/ op < best.pos)
        THEN [pos |-> op, kind |-> "open", tag |-> t]
        ELSE best

\* One iteration of `for t in self._tags` of the marker search: best is
\* [pos, kind, tag], pos = -1 standing for best_pos is None.
BestStep(best, s, i, t) ==
    LET op == Find(s, OpenTag(t), i)
        cp == Find(s, CloseTag(t), i)
        b1 == IF op # -1 /\ (best.pos = -1 \/ op < best.pos)
              THEN [pos |-> op, kind |-> "open", tag |-> t]
              ELSE best
    IN  IF cp # -1 /\ (b1.pos = -1 \/ cp < b1.pos)
        THEN [pos |-> cp, kind |-> "close", tag |-> t]
        ELSE b1

RECURSIVE BestFrom(_, _, _, _)
BestFrom(best, s, i, n) ==
    IF n > Len(Tags) THEN best
    ELSE BestFrom(BestStep(best, s, i, Tags[n]), s, i, n + 1)

\* "Find earliest open/close markers among known tags."
BestMarker(s, i) == BestFrom([pos |-> -1, kind |-> "none", tag |-> None], s, i, 1)

\* Mutant of InTagCarry: the tail that may start the closing tag is not kept.
InTagCarryDropped(s, close) == Empty

\* Mutant of InTagCarry: the whole buffer is kept while the tag is open.
InTagCarryWhole(s, close) == s

\* The carry kept while inside a hidden tag whose close is not in s:
\* s[-keep:] if keep > 0 and len(s) >= keep else s
InTagCarry(s, close) ==
    LET keep == Len(close) - 1
    IN  IF keep > 0 /\ Len(s) >= keep THEN SliceFrom(s, Len(s) - keep) ELSE s

\* Mutant of TagLoop: inside a hidden tag the closing tag of any hidden tag
\* ends the span.
RECURSIVE TagLoopAnyClose(_, _, _, _)
TagLoopAnyClose(s, i, in_tag, out) ==
    IF i >= Len(s)
    THEN [in_tag |-> in_tag, carry |-> Empty, out |-> out]
    ELSE IF in_tag # None
    THEN LET ends == {n \in 1..Len(Tags) : Find(s, CloseTag(Tags[n]), i) # -1}
             first == CHOOSE n \in ends :
                          \A m \in ends : Find(s, CloseTag(Tags[n]), i)
                                              <= Find(s, CloseTag(Tags[m]), i)
         IN  IF ends = {}
             THEN [in_tag |-> in_tag, carry |-> InTagCarry(s, CloseTag(in_tag)), out |-> out]
             ELSE TagLoopAnyClose(s, Find(s, CloseTag(Tags[first]), i)
                                        + Len(CloseTag(Tags[first])), None, out)
    ELSE LET best == BestMarker(s, i)
         IN  IF best.pos = -1
             THEN LET sp == split_partial_tag(SliceFrom(s, i))
                  IN  [in_tag |-> None, carry |-> sp.carry, out |-> out \o sp.safe]
             ELSE IF best.kind = "open"
             THEN TagLoopAnyClose(s, best.pos + Len(OpenTag(best.tag)), best.tag,
                                  out \o Slice(s, i, best.pos))
             ELSE TagLoopAnyClose(s, best.pos + Len(CloseTag(best.tag)), None,
                                  out \o Slice(s, i, best.pos))

\* Mutant of TagLoop: hidden spans nest, an opening hidden tag met inside a
\* hidden span becomes the open tag.
RECURSIVE TagLoopNests(_, _, _, _)
TagLoopNests(s, i, in_tag, out) ==
    IF i >= Len(s)
    THEN [in_tag |-> in_tag, carry |-> Empty, out |-> out]
    ELSE IF in_tag # None
    THEN LET close == CloseTag(in_tag)
             j == Find(s, close, i)
             opens == {n \in 1..Len(Tags) :
                          /\ Find(s, OpenTag(Tags[n]), i) # -1
                          /\ (j = -1 \/ Find(s, OpenTag(Tags[n]), i) < j)}
             first == CHOOSE n \in opens :
                          \A m \in opens : Find(s, OpenTag(Tags[n]), i)
                                               <= Find(s, OpenTag(Tags[m]), i)
         IN  IF opens # {}
             THEN TagLoopNests(s, Find(s, OpenTag(Tags[first]), i)
                                     + Len(OpenTag(Tags[first])), Tags[first], out)
             ELSE IF j = -1
             THEN [in_tag |-> in_tag, carry |-> InTagCarry(s, close), out |-> out]
             ELSE TagLoopNests(s, j + Len(close), None, out)
    ELSE LET best == BestMarker(s, i)
         IN  IF best.pos = -1
             THEN LET sp == split_partial_tag(SliceFrom(s, i))
                  IN  [in_tag |-> None, carry |-> sp.carry, out |-> out \o sp.safe]
             ELSE IF best.kind = "open"
             THEN TagLoopNests(s, best.pos + Len(OpenTag(best.tag)), best.tag,
                               out \o Slice(s, i, best.pos))
             ELSE TagLoopNests(s, best.pos + Len(CloseTag(best.tag)), None,
                               out \o Slice(s, i, best.pos))

\* The `while i < len(s)` loop of ThoughtTagFilter.feed; the result is the new
\* state and the joined output.
RECURSIVE TagLoop(_, _, _, _)
TagLoop(s, i, in_tag, out) ==
    IF i >= Len(s)
    THEN [in_tag |-> in_tag, carry |-> Empty, out |-> out]
    ELSE IF in_tag # None
    THEN LET close == CloseTag(in_tag)
             j == Find(s, close, i)
         IN  IF j = -1
             THEN [in_tag |-> in_tag, carry |-> InTagCarry(s, close), out |-> out]
             ELSE TagLoop(s, j + Len(close), None, out)
    ELSE LET best == BestMarker(s, i)
         IN  IF best.pos = -1
             THEN LET sp == split_partial_tag(SliceFrom(s, i))
                  IN  [in_tag |-> None, carry |-> sp.carry, out |-> out \o sp.safe]
             ELSE IF best.kind = "open"
             THEN TagLoop(s, best.pos + Len(OpenTag(best.tag)), best.tag,
                          out \o Slice(s, i, best.pos))
             ELSE \* Stray closing tag; drop it.
                  TagLoop(s, best.pos + Len(CloseTag(best.tag)), None,
                          out \o Slice(s, i, best.pos))

\* Mutant of TagFeed: the empty text discharges what was held back.
TagFeedFlushes(st, chunk) ==
    IF chunk = Empty
    THEN [in_tag |-> st.in_tag, carry |-> Empty, out |-> st.carry]
    ELSE TagLoop(st.carry \o chunk, 0, st.in_tag, Empty)

\* ThoughtTagFilter.feed(text): [in_tag, carry, out]
TagFeed(st, chunk) ==
    IF chunk = Empty
    THEN [in_tag |-> st.in_tag, carry |-> st.carry, out |-> Empty]
    ELSE TagLoop(st.carry \o chunk, 0, st.in_tag, Empty)

\* Mutant of strip_hidden_reasoning: the raw text is returned as it is.
strip_hidden_reasoning_raw(t) == t

\* strip_hidden_reasoning(text): one feed of a fresh filter
strip_hidden_reasoning(t) == TagFeed(TagFilterInit, t).out

----------------------------------------------------------------------------
(* FinalAnswerFilter *)

\* FinalAnswerFilter.__init__
FinalFilterInit ==
    [hidden |-> TagFilterInit, carry |-> Empty, in_final |-> FALSE, done |-> FALSE,
     seen_final |-> FALSE]

\* Mutant of OpenCarry: a partial opening tag at the end of a chunk is not kept.
OpenCarryDropped(s, i) == Empty

\* Not in final, no "<final>" in s[i:]: "Keep potential partial <final> at end."
OpenCarry(s, i) ==
    LET tail == SliceFrom(s, i)
        last_lt == RFindLt(tail)
        possible == SliceFrom(tail, last_lt)
    IN  IF last_lt # -1 /\ StartsWith(OpenTag(Final), possible) THEN possible ELSE Empty

\* In final, no "</final>" in s[i:]: "Avoid emitting a partial closing tag
\* fragment at the end."  [emit, carry]
CloseSplit(s, i) ==
    LET chunk == SliceFrom(s, i)
        last_lt == RFindLt(chunk)
        possible == SliceFrom(chunk, last_lt)
    IN  IF last_lt # -1 /\ StartsWith(CloseTag(Final), possible)
        THEN [emit |-> Slice(chunk, 0, last_lt), carry |-> possible]
        ELSE [emit |-> chunk, carry |-> Empty]

\* Mutant of FinalLoop: the opening tag is entered without being recorded as seen.
RECURSIVE FinalLoopUnseen(_, _, _, _, _)
FinalLoopUnseen(s, i, in_final, seen_final, out) ==
    IF i >= Len(s)
    THEN [carry |-> Empty, in_final |-> in_final, done |-> FALSE,
          seen_final |-> seen_final, out |-> out]
    ELSE IF ~in_final
    THEN LET j == Find(s, OpenTag(Final), i)
         IN  IF j = -1
             THEN [carry |-> OpenCarry(s, i), in_final |-> FALSE, done |-> FALSE,
                   seen_final |-> seen_final, out |-> out]
             ELSE FinalLoopUnseen(s, j + Len(OpenTag(Final)), TRUE, seen_final, out)
    ELSE LET k == Find(s, CloseTag(Final), i)
         IN  IF k = -1
             THEN LET cs == CloseSplit(s, i)
                  IN  [carry |-> cs.carry, in_final |-> TRUE, done |-> FALSE,
                       seen_final |-> seen_final, out |-> out \o cs.emit]
             ELSE [carry |-> Empty, in_final |-> FALSE, done |-> TRUE,
                   seen_final |-> seen_final, out |-> out \o Slice(s, i, k)]

\* The `while i < len(s)` loop of FinalAnswerFilter.feed
RECURSIVE FinalLoop(_, _, _, _, _)
FinalLoop(s, i, in_final, seen_final, out) ==
    IF i >= Len(s)
    THEN [carry |-> Empty, in_final |-> in_final, done |-> FALSE,
          seen_final |-> seen_final, out |-> out]
    ELSE IF ~in_final
    THEN LET j == Find(s, OpenTag(Final), i)
         IN  IF j = -1
             THEN [carry |-> OpenCarry(s, i), in_final |-> FALSE, done |-> FALSE,
                   seen_final |-> seen_final, out |-> out]
             ELSE FinalLoop(s, j + Len(OpenTag(Final)), TRUE, TRUE, out)
    ELSE LET k == Find(s, CloseTag(Final), i)
         IN  IF k = -1
             THEN LET cs == CloseSplit(s, i)
                  IN  [carry |-> cs.carry, in_final |-> TRUE, done |-> FALSE,
                       seen_final |-> seen_final, out |-> out \o cs.emit]
             ELSE [carry |-> Empty, in_final |-> FALSE, done |-> TRUE,
                   seen_final |-> seen_final, out |-> out \o Slice(s, i, k)]

\* Mutant of FinalFeed: the chunk reaches the final-span scan without passing
\* through the hidden-tag filter.
FinalFeedUnstripped(st, chunk) ==
    IF st.done \/ chunk = Empty
    THEN [st |-> st, out |-> Empty]
    ELSE LET r == FinalLoop(st.carry \o chunk, 0, st.in_final, st.seen_final, Empty)
         IN  [st |-> [hidden |-> st.hidden, carry |-> r.carry,
                      in_final |-> r.in_final, done |-> r.done,
                      seen_final |-> r.seen_final],
              out |-> r.out]

\* Mutant of FinalFeed: a filter that is done goes on scanning.
FinalFeedReopens(st, chunk) ==
    IF chunk = Empty
    THEN [st |-> st, out |-> Empty]
    ELSE LET h == TagFeed(st.hidden, chunk)
             r == FinalLoop(st.carry \o h.out, 0, st.in_final, st.seen_final, Empty)
         IN  [st |-> [hidden |-> [in_tag |-> h.in_tag, carry |-> h.carry],
                      carry |-> r.carry, in_final |-> r.in_final,
                      done |-> st.done \/ r.done, seen_final |-> r.seen_final],
              out |-> r.out]

\* FinalAnswerFilter.feed(text): [st |-> new state, out |-> returned text]
FinalFeed(st, chunk) ==
    IF st.done \/ chunk = Empty
    THEN [st |-> st, out |-> Empty]
    ELSE LET h == TagFeed(st.hidden, chunk)
             hidden == [in_tag |-> h.in_tag, carry |-> h.carry]
             stripped == h.out
         IN  IF stripped = Empty
             THEN [st |-> [st EXCEPT !.hidden = hidden], out |-> Empty]
             ELSE LET r == FinalLoop(st.carry \o stripped, 0, st.in_final,
                                     st.seen_final, Empty)
                  IN  [st |-> [hidden |-> hidden, carry |-> r.carry,
                               in_final |-> r.in_final, done |-> r.done,
                               seen_final |-> r.seen_final],
                       out |-> r.out]

----------------------------------------------------------------------------
(* Model outputs the text specifications draw from *)

\* Pieces of a model output fed to a ThoughtTagFilter: the hidden-tag
\* literals, bare and followed by "h" (a character of reasoning text), a
\* visible character "a" and a lone "<".
TagPieces ==
    {OpenTag(Think), CloseTag(Think), OpenTag(Analysis), CloseTag(Analysis),
     OpenTag(Think) \o <<"h">>, OpenTag(Analysis) \o <<"h">>,
     <<"a">>, <<"<">>, <<"h">>}

\* Pieces of a model output of _stream: a whole reasoning span, an opening and
\* a closing hidden tag on their own, the final tags (the opening one bare and
\* followed by a visible character), a visible character and a lone "<".
StreamPieces ==
    {OpenTag(Think) \o <<"h">> \o CloseTag(Think), OpenTag(Analysis) \o <<"h">>,
     CloseTag(Analysis), OpenTag(Final), OpenTag(Final) \o <<"a">>, CloseTag(Final),
     <<"a">>, <<"<">>}

RECURSIVE Flatten(_)
Flatten(ps) == IF ps = << >> THEN Empty ELSE Head(ps) \o Flatten(Tail(ps))

TextsOf(P) == UNION {{Flatten(ps) : ps \in [1..k -> P]} : k \in 0..MaxPieces}

Event(type, txt) == [type |-> type, text |-> txt]

NoEvent == Event("none", Empty)

\* The done event of a turn that has not yielded it yet
NoDone == [type |-> "none", data |-> ""]

Turns == {1, 2}

\* The values the variables of the other specifications rest at.
TextIdle ==
    /\ text = Empty /\ pos = 0
    /\ tf = TagFilterInit /\ tfRet = Empty /\ tfOut = Empty
    /\ ff = FinalFilterInit
    /\ raw_response = Empty /\ full_response = Empty /\ visible = Empty
    /\ lastEvent = NoEvent /\ spc = "idle"

BridgeIdle ==
    /\ tpc = [t \in Turns |-> "new"]
    /\ gpc = [t \in Turns |-> "new"]
    /\ cpc = [t \in Turns |-> "new"]
    /\ event_queue = [t \in Turns |-> << >>]
    /\ loop_running = 0
    /\ nloop = [t \in Turns |-> 0]
    /\ nsave = [t \in Turns |-> 0]
    /\ produced = [t \in Turns |-> << >>]
    /\ puts = [t \in Turns |-> << >>]
    /\ observed = [t \in Turns |-> << >>]
    /\ timedOut = [t \in Turns |-> FALSE]

CallerIdleInit == idled = [t \in Turns |-> FALSE]

MemIdle ==
    /\ message = [pref |-> FALSE, interest |-> FALSE] /\ mstore = {}
    /\ mpc = "idle"
    /\ memories = << >> /\ candidates = << >> /\ unique_memories = << >> /\ midx = 0
    /\ primary = "none" /\ phases = << >> /\ checks = << >> /\ mevents = << >>
    /\ done_event = NoDone

ToolsIdle ==
    /\ source = << >> /\ running = {} /\ current_tool = "None" /\ yielded = << >>

FeedIdle == emptyFed = FALSE

PatIdle ==
    /\ findall = << >> /\ ppc = "idle" /\ pattern = 0 /\ found = << >> /\ consulted = {}

NoCall == [made |-> FALSE, start_time |-> Empty, time_slot |-> Empty]

NoOutcome == [raised |-> FALSE, time |-> Empty]

BookIdle == bookings = << >> /\ call = NoCall /\ outcome = NoOutcome

NoDeletion == [called |-> FALSE, raised |-> FALSE, returned |-> FALSE]

DelIdle == deleted_key = 0 /\ deletion = NoDeletion

\* The threads that call connect_store, initialize_agent or get_agent
Callers == {1, 2, 3}

NoGlobals == [store |-> 0, agent |-> 0, initialized |-> FALSE, running |-> FALSE]

NoEffects == [opened |-> {}, loaded |-> 0, created |-> {}]

NotCalled == [entry |-> "none", store |-> 0, agent |-> 0]

StartIdle ==
    /\ globals = NoGlobals /\ effects = NoEffects
    /\ ipc = [t \in Callers |-> "idle"]
    /\ got = [t \in Callers |-> NotCalled]

NoUpdate ==
    [called |-> FALSE, user_id |-> "none", key |-> "none", new_content |-> "None",
     new_type |-> "None", now |-> 0]

UpdIdle == update = NoUpdate /\ updated = {}

LateIdle == StartIdle /\ UpdIdle

UnitIdle == ToolsIdle /\ FeedIdle /\ PatIdle /\ BookIdle /\ DelIdle /\ LateIdle

----------------------------------------------------------------------------
(* SpecTag: one ThoughtTagFilter fed a model output in consecutive chunks *)

TagInit ==
    /\ text \in TextsOf(TagPieces)
    /\ pos = 0
    /\ tf = TagFilterInit /\ tfRet = Empty /\ tfOut = Empty
    /\ ff = FinalFilterInit
    /\ raw_response = Empty /\ full_response = Empty /\ visible = Empty
    /\ lastEvent = NoEvent /\ spc = "idle"
    /\ BridgeIdle /\ CallerIdleInit /\ MemIdle /\ UnitIdle

\* f.feed(chunk) for the next n characters of the text
TagFeedChunk(n) ==
    /\ \E r \in {TagFeed(tf, Slice(text, pos, pos + n))} :
          /\ tf' = [in_tag |-> r.in_tag, carry |-> r.carry]
          /\ tfRet' = r.out
          /\ tfOut' = tfOut \o r.out
    /\ pos' = pos + n
    /\ UNCHANGED <<text, ff, raw_response, full_response, visible, lastEvent, spc>>
    /\ UNCHANGED <<bridgeVars, idleVars, memVars, unitVars>>

TagNext == \E n \in 1..(Len(text) - pos) : TagFeedChunk(n)

SpecTag == TagInit /\ [][TagNext]_vars

----------------------------------------------------------------------------
(* SpecStream: the model loop of _stream, from the first chunk to "done" *)

StreamInit ==
    /\ text \in TextsOf(StreamPieces)
    /\ pos = 0
    /\ tf = TagFilterInit /\ tfRet = Empty /\ tfOut = Empty
    /\ ff = FinalFilterInit
    /\ raw_response = Empty /\ full_response = Empty /\ visible = Empty
    /\ lastEvent = NoEvent /\ spc = "loop"
    /\ BridgeIdle /\ CallerIdleInit /\ MemIdle /\ UnitIdle

\* on_chat_model_stream with a chunk of the next n characters:
\* raw_response += content; visible = final_filter.feed(content);
\* if visible: full_response += visible; yield ("token", visible)
StreamChunk(n) ==
    /\ spc = "loop"
    /\ \E chunk \in {Slice(text, pos, pos + n)} :
          /\ raw_response' = raw_response \o chunk
          /\ \E r \in {FinalFeed(ff, chunk)} :
                /\ ff' = r.st
                /\ visible' = r.out
                /\ full_response' = full_response \o r.out
                /\ lastEvent' = IF r.out # Empty THEN Event("token", r.out) ELSE lastEvent
    /\ pos' = pos + n
    /\ UNCHANGED <<text, tf, tfRet, tfOut, spc>>
    /\ UNCHANGED <<bridgeVars, idleVars, memVars, unitVars>>

\* The event source is exhausted: "Yield done first so user sees complete response"
StreamDone ==
    /\ spc = "loop"
    /\ pos = Len(text)
    /\ lastEvent' = IF full_response = Empty /\ raw_response # Empty
                    THEN Event("done", strip_hidden_reasoning(raw_response))
                    ELSE Event("done", full_response)
    /\ spc' = "done"
    /\ UNCHANGED <<text, pos, tf, tfRet, tfOut, ff, raw_response, full_response, visible>>
    /\ UNCHANGED <<bridgeVars, idleVars, memVars, unitVars>>

StreamNext ==
    \/ \E n \in 1..(Len(text) - pos) : StreamChunk(n)
    \/ StreamDone

SpecStream == StreamInit /\ [][StreamNext]_vars

----------------------------------------------------------------------------
(* The bridge of run_agent_streaming: thread, event loop, queue, consumer *)

BEvent(type, data) == [type |-> type, data |-> data]

\* _SENTINEL = object()
SENTINEL == BEvent("_SENTINEL", "")

ProducerError == BEvent("error", "str(e)")

LoopError == BEvent("error", "Event loop error")

TimeoutError == BEvent("error", "Stream timeout")

\* The kinds of event the model loop of _stream yields
LoopKinds == {"token", "tool_start", "tool_end"}

\* The positions at which _stream is suspended on I/O: retrieve_user_memories,
\* the next event of astream_events, extract_memories_with_fallback,
\* save_memory.  Time passes only there; the code between two awaits runs in
\* no time against the 60 s of the consumer's wait.
AwaitPoints == {"retrieve", "loop", "extract", "saving"}

BridgeInit == TextIdle /\ BridgeIdle /\ CallerIdleInit /\ MemIdle /\ UnitIdle

\* event_queue.put(e) by the coroutine of turn t, at position gpc' = g
QueuePut(t, e, g) ==
    /\ event_queue' = [event_queue EXCEPT ![t] = Append(@, e)]
    /\ puts' = [puts EXCEPT ![t] = Append(@, e)]
    /\ gpc' = [gpc EXCEPT ![t] = g]

\* _stream yields e and stream_to_queue puts it
Yield(t, e, g) ==
    /\ QueuePut(t, e, g)
    /\ produced' = [produced EXCEPT ![t] = Append(@, e)]

\* The first next() on the generator: event_queue = queue.Queue();
\* main_loop = get_event_loop(); stream_thread.start(); event_queue.get(...).
\* Turns are numbered in the order their generators are started.
StartTurn(t) ==
    /\ cpc[t] = "new"
    /\ \A u \in Turns : u < t => cpc[u] # "new"
    /\ cpc' = [cpc EXCEPT ![t] = "waiting"]
    /\ tpc' = [tpc EXCEPT ![t] = "start"]
    /\ UNCHANGED <<gpc, event_queue, loop_running, nloop, nsave, produced, puts, observed,
                   timedOut>>
    /\ UNCHANGED <<textVars, idleVars, memVars, unitVars>>

\* The thread calls main_loop.run_until_complete(stream_to_queue()) on the
\* process-wide loop: it raises RuntimeError when the loop is already running,
\* else the loop runs the coroutine.
ThreadRun(t) ==
    /\ tpc[t] = "start"
    /\ IF loop_running # 0
       THEN /\ tpc' = [tpc EXCEPT ![t] = "loop_error"]
            /\ UNCHANGED <<gpc, loop_running>>
       ELSE /\ tpc' = [tpc EXCEPT ![t] = "running"]
            /\ gpc' = [gpc EXCEPT ![t] = "retrieve"]
            /\ loop_running' = t
    /\ UNCHANGED <<cpc, event_queue, nloop, nsave, produced, puts, observed, timedOut>>
    /\ UNCHANGED <<textVars, idleVars, memVars, unitVars>>

\* Mutant of LoopErrorPutError: the failure of run_until_complete is not reported.
LoopErrorSilent(t) ==
    /\ tpc[t] = "loop_error"
    /\ tpc' = [tpc EXCEPT ![t] = "loop_error_sentinel"]
    /\ UNCHANGED <<gpc, cpc, event_queue, loop_running, nloop, nsave, produced, puts,
                   observed, timedOut>>
    /\ UNCHANGED <<textVars, idleVars, memVars, unitVars>>

\* except Exception of run_async_stream: event_queue.put(("error", "Event loop error: ..."))
LoopErrorPutError(t) ==
    /\ tpc[t] = "loop_error"
    /\ tpc' = [tpc EXCEPT ![t] = "loop_error_sentinel"]
    /\ event_queue' = [event_queue EXCEPT ![t] = Append(@, LoopError)]
    /\ puts' = [puts EXCEPT ![t] = Append(@, LoopError)]
    /\ UNCHANGED <<gpc, cpc, loop_running, nloop, nsave, produced, observed, timedOut>>
    /\ UNCHANGED <<textVars, idleVars, memVars, unitVars>>

\* ... followed by event_queue.put(_SENTINEL)
LoopErrorPutSentinel(t) ==
    /\ tpc[t] = "loop_error_sentinel"
    /\ tpc' = [tpc EXCEPT ![t] = "exited"]
    /\ event_queue' = [event_queue EXCEPT ![t] = Append(@, SENTINEL)]
    /\ puts' = [puts EXCEPT ![t] = Append(@, SENTINEL)]
    /\ UNCHANGED <<gpc, cpc, loop_running, nloop, nsave, produced, observed, timedOut>>
    /\ UNCHANGED <<textVars, idleVars, memVars, unitVars>>

\* memories = await retrieve_user_memories(...); yield ("memories", memories)
Retrieve(t) ==
    /\ gpc[t] = "retrieve"
    /\ Yield(t, BEvent("memories", ""), "loop")
    /\ UNCHANGED <<tpc, cpc, loop_running, nloop, nsave, observed, timedOut>>
    /\ UNCHANGED <<textVars, idleVars, memVars, unitVars>>

\* Mutant of Raise: the fault discards what is still on the queue.
RaiseDropsQueued(t) ==
    /\ gpc[t] \in {"retrieve", "loop"}
    /\ gpc' = [gpc EXCEPT ![t] = "except"]
    /\ event_queue' = [event_queue EXCEPT ![t] = << >>]
    /\ UNCHANGED <<tpc, cpc, loop_running, nloop, nsave, produced, puts, observed, timedOut>>
    /\ UNCHANGED <<textVars, idleVars, memVars, unitVars>>

\* An await of _stream before "done" raises: retrieve_user_memories or the
\* iteration of agent.astream_events
Raise(t) ==
    /\ gpc[t] \in {"retrieve", "loop"}
    /\ gpc' = [gpc EXCEPT ![t] = "except"]
    /\ UNCHANGED <<tpc, cpc, event_queue, loop_running, nloop, nsave, produced, puts,
                   observed, timedOut>>
    /\ UNCHANGED <<textVars, idleVars, memVars, unitVars>>

\* One event of astream_events that makes _stream yield: a chunk with visible
\* text (token), on_tool_start, on_tool_end.  (An event that yields nothing, a
\* suppressed chunk or another event type, changes nothing the bridge sees.)
LoopEvent(t, k) ==
    /\ gpc[t] = "loop"
    /\ nloop[t] < MaxLoopEvents
    /\ nloop' = [nloop EXCEPT ![t] = @ + 1]
    /\ Yield(t, BEvent(k, ""), "loop")
    /\ UNCHANGED <<tpc, cpc, loop_running, nsave, observed, timedOut>>
    /\ UNCHANGED <<textVars, idleVars, memVars, unitVars>>

\* Mutant of LoopEnd: the end of the stream is signalled together with "done".
LoopEndSignalsEnd(t) ==
    /\ gpc[t] = "loop"
    /\ event_queue' = [event_queue EXCEPT ![t] = @ \o <<BEvent("done", ""), SENTINEL>>]
    /\ puts' = [puts EXCEPT ![t] = @ \o <<BEvent("done", ""), SENTINEL>>]
    /\ produced' = [produced EXCEPT ![t] = Append(@, BEvent("done", ""))]
    /\ gpc' = [gpc EXCEPT ![t] = "extracting"]
    /\ UNCHANGED <<tpc, cpc, loop_running, nloop, nsave, observed, timedOut>>
    /\ UNCHANGED <<textVars, idleVars, memVars, unitVars>>

\* astream_events is exhausted: yield ("done", ...)
LoopEnd(t) ==
    /\ gpc[t] = "loop"
    /\ Yield(t, BEvent("done", ""), "extracting")
    /\ UNCHANGED <<tpc, cpc, loop_running, nloop, nsave, observed, timedOut>>
    /\ UNCHANGED <<textVars, idleVars, memVars, unitVars>>

\* Mutant of YieldExtracting: the extraction starts without being announced.
ExtractingNotAnnounced(t) ==
    /\ gpc[t] = "extracting"
    /\ gpc' = [gpc EXCEPT ![t] = "extract"]
    /\ UNCHANGED <<tpc, cpc, event_queue, loop_running, nloop, nsave, produced, puts,
                   observed, timedOut>>
    /\ UNCHANGED <<textVars, idleVars, memVars, unitVars>>

\* yield ("memory_extracting", {})
YieldExtracting(t) ==
    /\ gpc[t] = "extracting"
    /\ Yield(t, BEvent("memory_extracting", ""), "extract")
    /\ UNCHANGED <<tpc, cpc, loop_running, nloop, nsave, observed, timedOut>>
    /\ UNCHANGED <<textVars, idleVars, memVars, unitVars>>

\* extracted = await extract_memories_with_fallback(...) returns k memories
Extract(t, k) ==
    /\ gpc[t] = "extract"
    /\ nsave' = [nsave EXCEPT ![t] = k]
    /\ gpc' = [gpc EXCEPT ![t] = IF k = 0 THEN "finally" ELSE "saving"]
    /\ UNCHANGED <<tpc, cpc, event_queue, loop_running, nloop, produced, puts, observed,
                   timedOut>>
    /\ UNCHANGED <<textVars, idleVars, memVars, unitVars>>

\* extract_memories_with_fallback raises:
\* except Exception: yield ("memory_extraction_failed", ...)
ExtractFail(t) ==
    /\ gpc[t] = "extract"
    /\ Yield(t, BEvent("memory_extraction_failed", ""), "finally")
    /\ UNCHANGED <<tpc, cpc, loop_running, nloop, nsave, observed, timedOut>>
    /\ UNCHANGED <<textVars, idleVars, memVars, unitVars>>

\* saved = await save_memory(...); yield ("memory_saved", saved)
Save(t) ==
    /\ gpc[t] = "saving"
    /\ nsave' = [nsave EXCEPT ![t] = @ - 1]
    /\ Yield(t, BEvent("memory_saved", ""), IF nsave[t] = 1 THEN "finally" ELSE "saving")
    /\ UNCHANGED <<tpc, cpc, loop_running, nloop, observed, timedOut>>
    /\ UNCHANGED <<textVars, idleVars, memVars, unitVars>>

\* Mutant of SaveFail: the failure of save_memory is not caught in _stream and
\* reaches stream_to_queue.
SaveFailEscapes(t) ==
    /\ gpc[t] = "saving"
    /\ gpc' = [gpc EXCEPT ![t] = "except"]
    /\ UNCHANGED <<tpc, cpc, event_queue, loop_running, nloop, nsave, produced, puts,
                   observed, timedOut>>
    /\ UNCHANGED <<textVars, idleVars, memVars, unitVars>>

\* save_memory raises: except Exception: yield ("memory_extraction_failed", ...)
SaveFail(t) ==
    /\ gpc[t] = "saving"
    /\ Yield(t, BEvent("memory_extraction_failed", ""), "finally")
    /\ UNCHANGED <<tpc, cpc, loop_running, nloop, nsave, observed, timedOut>>
    /\ UNCHANGED <<textVars, idleVars, memVars, unitVars>>

\* except Exception of stream_to_queue: event_queue.put(("error", str(e)))
PutError(t) ==
    /\ gpc[t] = "except"
    /\ QueuePut(t, ProducerError, "finally")
    /\ UNCHANGED <<tpc, cpc, loop_running, nloop, nsave, produced, observed, timedOut>>
    /\ UNCHANGED <<textVars, idleVars, memVars, unitVars>>

\* finally of stream_to_queue: event_queue.put(_SENTINEL); the coroutine returns
PutSentinel(t) ==
    /\ gpc[t] = "finally"
    /\ QueuePut(t, SENTINEL, "returned")
    /\ UNCHANGED <<tpc, cpc, loop_running, nloop, nsave, produced, observed, timedOut>>
    /\ UNCHANGED <<textVars, idleVars, memVars, unitVars>>

\* run_until_complete returns: the loop stops running and the thread ends
ThreadExit(t) ==
    /\ tpc[t] = "running"
    /\ gpc[t] = "returned"
    /\ tpc' = [tpc EXCEPT ![t] = "exited"]
    /\ loop_running' = 0
    /\ UNCHANGED <<gpc, cpc, event_queue, nloop, nsave, produced, puts, observed, timedOut>>
    /\ UNCHANGED <<textVars, idleVars, memVars, unitVars>>

\* Mutant of Get: the item is read but left on the queue.
GetKeepsItem(t) ==
    /\ cpc[t] = "waiting"
    /\ event_queue[t] # << >>
    /\ IF Head(event_queue[t]) = SENTINEL
       THEN cpc' = [cpc EXCEPT ![t] = "ended"] /\ UNCHANGED observed
       ELSE /\ cpc' = [cpc EXCEPT ![t] = "yielded"]
            /\ observed' = [observed EXCEPT ![t] = Append(@, Head(event_queue[t]))]
    /\ UNCHANGED <<tpc, gpc, event_queue, loop_running, nloop, nsave, produced, puts,
                   timedOut>>
    /\ UNCHANGED <<textVars, idleVars, memVars, unitVars>>

\* event = event_queue.get(timeout=60.0) returns an item:
\* if event is _SENTINEL: break, else yield event
Get(t) ==
    /\ cpc[t] = "waiting"
    /\ event_queue[t] # << >>
    /\ event_queue' = [event_queue EXCEPT ![t] = Tail(@)]
    /\ IF Head(event_queue[t]) = SENTINEL
       THEN cpc' = [cpc EXCEPT ![t] = "ended"] /\ UNCHANGED observed
       ELSE /\ cpc' = [cpc EXCEPT ![t] = "yielded"]
            /\ observed' = [observed EXCEPT ![t] = Append(@, Head(event_queue[t]))]
    /\ UNCHANGED <<tpc, gpc, loop_running, nloop, nsave, produced, puts, timedOut>>
    /\ UNCHANGED <<textVars, idleVars, memVars, unitVars>>

\* Mutant of GetTimeout: the wait has no timeout.
GetNeverTimesOut(t) == FALSE /\ UNCHANGED vars

\* Mutant of GetTimeout: after the synthetic error the loop goes on waiting.
GetTimeoutContinues(t) ==
    /\ cpc[t] = "waiting"
    /\ event_queue[t] = << >>
    /\ gpc[t] \in AwaitPoints
    /\ cpc' = [cpc EXCEPT ![t] = "yielded"]
    /\ observed' = [observed EXCEPT ![t] = Append(@, TimeoutError)]
    /\ timedOut' = [timedOut EXCEPT ![t] = TRUE]
    /\ UNCHANGED <<tpc, gpc, event_queue, loop_running, nloop, nsave, produced, puts>>
    /\ UNCHANGED <<textVars, idleVars, memVars, unitVars>>

\* event_queue.get(timeout=60.0) raises queue.Empty, the queue having stayed
\* empty for the whole wait while the producer is suspended on I/O:
\* yield ("error", "Stream timeout")
GetTimeout(t) ==
    /\ cpc[t] = "waiting"
    /\ event_queue[t] = << >>
    /\ gpc[t] \in AwaitPoints
    /\ cpc' = [cpc EXCEPT ![t] = "yielded_timeout"]
    /\ observed' = [observed EXCEPT ![t] = Append(@, TimeoutError)]
    /\ timedOut' = [timedOut EXCEPT ![t] = TRUE]
    /\ UNCHANGED <<tpc, gpc, event_queue, loop_running, nloop, nsave, produced, puts>>
    /\ UNCHANGED <<textVars, idleVars, memVars, unitVars>>

\* The caller asks for the next event after a yield of the while loop
Resume(t) ==
    /\ cpc[t] = "yielded"
    /\ cpc' = [cpc EXCEPT ![t] = "waiting"]
    /\ UNCHANGED <<tpc, gpc, event_queue, loop_running, nloop, nsave, produced, puts,
                   observed, timedOut>>
    /\ UNCHANGED <<textVars, idleVars, memVars, unitVars>>

\* The caller asks for the next event after the timeout error: break
ResumeAfterTimeout(t) ==
    /\ cpc[t] = "yielded_timeout"
    /\ cpc' = [cpc EXCEPT ![t] = "ended"]
    /\ UNCHANGED <<tpc, gpc, event_queue, loop_running, nloop, nsave, produced, puts,
                   observed, timedOut>>
    /\ UNCHANGED <<textVars, idleVars, memVars, unitVars>>

ThreadStep(t) ==
    \/ ThreadRun(t)
    \/ LoopErrorPutError(t)
    \/ LoopErrorPutSentinel(t)
    \/ ThreadExit(t)

ProducerStep(t) ==
    \/ Retrieve(t)
    \/ Raise(t)
    \/ \E k \in LoopKinds : LoopEvent(t, k)
    \/ LoopEnd(t)
    \/ YieldExtracting(t)
    \/ \E k \in 0..MaxSaved : Extract(t, k)
    \/ ExtractFail(t)
    \/ Save(t)
    \/ SaveFail(t)
    \/ PutError(t)
    \/ PutSentinel(t)

ConsumerStep(t) ==
    \/ Get(t)
    \/ GetTimeout(t)

CallerStep(t) ==
    \/ StartTurn(t)
    \/ Resume(t)
    \/ ResumeAfterTimeout(t)

Next == \E t \in Turns : ThreadStep(t) \/ ProducerStep(t) \/ ConsumerStep(t) \/ CallerStep(t)

Spec == BridgeInit /\ [][Next]_vars

\* A turn is started while the producer of an earlier turn, whose consumer
\* timed out and has gone, is still suspended in retrieve_user_memories on the
\* event loop (the state after StartTurn(1), ThreadRun(1), GetTimeout(1),
\* ResumeAfterTimeout(1)).
LiveInit ==
    /\ TextIdle /\ CallerIdleInit /\ MemIdle /\ UnitIdle
    /\ tpc = [t \in Turns |-> IF t = 1 THEN "running" ELSE "new"]
    /\ gpc = [t \in Turns |-> IF t = 1 THEN "retrieve" ELSE "new"]
    /\ cpc = [t \in Turns |-> IF t = 1 THEN "ended" ELSE "new"]
    /\ event_queue = [t \in Turns |-> << >>]
    /\ loop_running = 1
    /\ nloop = [t \in Turns |-> 0]
    /\ nsave = [t \in Turns |-> 0]
    /\ produced = [t \in Turns |-> << >>]
    /\ puts = [t \in Turns |-> << >>]
    /\ observed = [t \in Turns |-> IF t = 1 THEN <<TimeoutError>> ELSE << >>]
    /\ timedOut = [t \in Turns |-> t = 1]

\* The steps of a turn's thread and coroutine that wait for nothing
PromptStep(t) ==
    \/ ThreadStep(t)
    \/ YieldExtracting(t)
    \/ PutError(t)
    \/ PutSentinel(t)

\* The consumer's get returns or times out, the caller keeps asking for events,
\* and a thread that waits for nothing goes on.  Nothing is assumed of a step
\* suspended on I/O: the producer may hang there.
LiveSpec ==
    /\ LiveInit
    /\ [][Next]_vars
    /\ \A t \in Turns : WF_vars(ConsumerStep(t))
    /\ \A t \in Turns : WF_vars(CallerStep(t))
    /\ \A t \in Turns : WF_vars(PromptStep(t))

----------------------------------------------------------------------------
(* SpecIdle: the bridge with a caller that may pause between two pulls *)

\* Mutant of CallerIdle: the pause itself ends the iteration with the timeout error.
CallerIdleExpires(t) ==
    /\ cpc[t] = "yielded"
    /\ ~idled[t]
    /\ idled' = [idled EXCEPT ![t] = TRUE]
    /\ cpc' = [cpc EXCEPT ![t] = "yielded_timeout"]
    /\ observed' = [observed EXCEPT ![t] = Append(@, TimeoutError)]
    /\ timedOut' = [timedOut EXCEPT ![t] = TRUE]
    /\ UNCHANGED <<tpc, gpc, event_queue, loop_running, nloop, nsave, produced, puts>>
    /\ UNCHANGED <<textVars, memVars, unitVars>>

\* The generator is suspended at `yield event` and the caller lets more than
\* the per-item timeout pass before its next next(): no statement of the
\* consumer loop runs meanwhile, and event_queue.get is not waiting.
CallerIdle(t) ==
    /\ cpc[t] = "yielded"
    /\ ~idled[t]
    /\ idled' = [idled EXCEPT ![t] = TRUE]
    /\ UNCHANGED <<bridgeVars, textVars, memVars, unitVars>>

IdleNext ==
    \E t \in Turns :
        ThreadStep(t) \/ ProducerStep(t) \/ ConsumerStep(t) \/ CallerStep(t) \/ CallerIdle(t)

SpecIdle == BridgeInit /\ [][IdleNext]_vars

----------------------------------------------------------------------------
(* SpecMem: the memory pipeline of one message: extract_memories_with_fallback
   (src/memory/llm_extractor.py) and the save loop of _stream.  The content of
   a memory is a point on a line, and the distance the store returns for a
   query and a record is 0.05 per unit between their points; distances and
   similarities are counted in hundredths. *)

\* similarity_threshold: float = 0.85, in hundredths
similarity_threshold == 85

\* limit=5 of the search of is_duplicate_memory
SearchLimit == 5

Memory(type, content) == [type |-> type, content |-> content]

\* The messages: whether the preference loop and the interest loop of the
\* pattern extractor append a candidate
Messages == [pref : BOOLEAN, interest : BOOLEAN]

\* extract_memories_from_message: at most one preference, then at most one interest
extract_memories_from_message(m) ==
    (IF m.pref THEN <<Memory("preference", 0)>> ELSE << >>)
        \o (IF m.interest THEN <<Memory("interest", 0)>> ELSE << >>)

\* What extract_memories_llm may return when it returns
LLMCandidates == {Memory("preference", 0), Memory("fact", 0)}

LLMResults == UNION {[1..k -> LLMCandidates] : k \in 0..MaxCandidates}

\* The partitions the pipeline may meet: up to MaxOthers interest records at
\* distance 0.05 of content 0, and any of three preference records at
\* distances 0.10, 0.15 and 0.20 of it.
Record(key, type, content) == [key |-> key, type |-> type, content |-> content]

Partitions ==
    {{Record(k, "interest", 1) : k \in 1..n} \cup P :
        n \in 0..MaxOthers,
        P \in SUBSET {Record(MaxOthers + c, "preference", c + 1) : c \in 1..3}}

\* item.score of a search result, which the code reads as a distance
Score(query, rec) ==
    LET d == IF query >= rec.content THEN query - rec.content ELSE rec.content - query
    IN  IF 5 * d > 100 THEN 100 ELSE 5 * d

\* The result sets store.asearch(namespace, query=..., limit=5) may return:
\* the records nearest to the query, SearchLimit of them at most
SearchResults(query, store) ==
    {R \in SUBSET store :
        /\ Cardinality(R) = (IF Cardinality(store) < SearchLimit
                             THEN Cardinality(store) ELSE SearchLimit)
        /\ \A r \in R, o \in store \ R : Score(query, r) <= Score(query, o)}

\* The for loop of is_duplicate_memory over the results
is_duplicate(results, new_memory) ==
    \E item \in results :
        /\ item.type = new_memory.type
        /\ 100 - Score(new_memory.content, item) >= similarity_threshold

\* The pipeline of one message starts where the model loop of _stream has ended.
MemInit ==
    /\ TextIdle /\ BridgeIdle /\ CallerIdleInit /\ UnitIdle
    /\ message \in Messages
    /\ mstore \in Partitions
    /\ mpc = "response"
    /\ memories = << >> /\ candidates = << >> /\ unique_memories = << >> /\ midx = 0
    /\ primary = "none" /\ phases = << >> /\ checks = << >> /\ mevents = << >>
    /\ done_event = NoDone

MemFrame == UNCHANGED <<textVars, bridgeVars, idleVars, unitVars, message, done_event>>

\* The texts of a done event: empty, or a response
DoneTexts == {"", "response"}

\* "Yield done first so user sees complete response": yield ("done", ...)
YieldDone(txt) ==
    /\ mpc = "response"
    /\ done_event' = BEvent("done", txt)
    /\ mpc' = "start"
    /\ UNCHANGED <<mstore, memories, candidates, unique_memories, midx, primary, phases, checks,
                   mevents>>
    /\ UNCHANGED <<textVars, bridgeVars, idleVars, unitVars, message>>

\* yield ("memory_extracting", {}); memories = []; the call of extract_memories_llm
YieldMemoryExtracting ==
    /\ mpc = "start"
    /\ mevents' = Append(mevents, "memory_extracting")
    /\ phases' = Append(phases, "TryPrimary")
    /\ mpc' = "primary"
    /\ UNCHANGED <<mstore, memories, candidates, unique_memories, midx, primary, checks>>
    /\ MemFrame

\* Mutant of PrimaryReturns: an empty result of the model is taken for a failure.
PrimaryReturnsRetriesEmpty(list) ==
    /\ mpc = "primary"
    /\ memories' = list
    /\ candidates' = list
    /\ primary' = "ok"
    /\ mpc' = IF list = << >> THEN "fallback" ELSE "dedup_guard"
    /\ UNCHANGED <<mstore, unique_memories, midx, phases, checks, mevents>>
    /\ MemFrame

\* memories = await extract_memories_llm(user_message, timeout=timeout) returns
PrimaryReturns(list) ==
    /\ mpc = "primary"
    /\ memories' = list
    /\ candidates' = list
    /\ primary' = "ok"
    /\ mpc' = "dedup_guard"
    /\ UNCHANGED <<mstore, unique_memories, midx, phases, checks, mevents>>
    /\ MemFrame

\* asyncio.wait_for raises asyncio.TimeoutError: except asyncio.TimeoutError
PrimaryTimesOut ==
    /\ mpc = "primary"
    /\ primary' = "timeout"
    /\ mpc' = "fallback"
    /\ UNCHANGED <<mstore, memories, candidates, unique_memories, midx, phases, checks,
                   mevents>>
    /\ MemFrame

\* extract_memories_llm raises another error: except Exception
PrimaryRaises ==
    /\ mpc = "primary"
    /\ primary' = "error"
    /\ mpc' = "fallback"
    /\ UNCHANGED <<mstore, memories, candidates, unique_memories, midx, phases, checks,
                   mevents>>
    /\ MemFrame

\* Mutant of Fallback: the fallback finds nothing.
FallbackFindsNothing ==
    /\ mpc = "fallback"
    /\ memories' = << >>
    /\ candidates' = << >>
    /\ phases' = Append(phases, "Fallback")
    /\ mpc' = "dedup_guard"
    /\ UNCHANGED <<mstore, unique_memories, midx, primary, checks, mevents>>
    /\ MemFrame

\* memories = extract_memories_from_message(user_message), in either except clause
Fallback ==
    /\ mpc = "fallback"
    /\ memories' = extract_memories_from_message(message)
    /\ candidates' = extract_memories_from_message(message)
    /\ phases' = Append(phases, "Fallback")
    /\ mpc' = "dedup_guard"
    /\ UNCHANGED <<mstore, unique_memories, midx, primary, checks, mevents>>
    /\ MemFrame

\* if deduplicate and store and user_id and memories: unique_memories = [] ...
\* (_stream passes a store, a user id and deduplicate=True)
DedupGuard ==
    /\ mpc = "dedup_guard"
    /\ phases' = Append(phases, "Dedup")
    /\ IF memories # << >>
       THEN /\ unique_memories' = << >>
            /\ midx' = 1
            /\ mpc' = "dedup"
       ELSE /\ mpc' = "return"
            /\ UNCHANGED <<unique_memories, midx>>
    /\ UNCHANGED <<mstore, memories, candidates, primary, checks, mevents>>
    /\ MemFrame

\* Mutant of DedupCheck: a candidate that passes its check is written at once.
DedupCheckWritesAtOnce ==
    /\ mpc = "dedup"
    /\ midx <= Len(memories)
    /\ \E results \in SearchResults(memories[midx].content, mstore) :
          \E dup \in {is_duplicate(results, memories[midx])} :
              /\ unique_memories' = IF dup THEN unique_memories
                                    ELSE Append(unique_memories, memories[midx])
              /\ checks' = Append(checks, [cand |-> memories[midx], failed |-> FALSE,
                                           results |-> results, dup |-> dup])
              /\ mstore' = IF dup THEN mstore
                           ELSE mstore \cup {Record(SetMax({r.key : r \in mstore} \cup {0}) + 1,
                                                     memories[midx].type,
                                                     memories[midx].content)}
    /\ midx' = midx + 1
    /\ UNCHANGED <<mpc, memories, candidates, primary, phases, mevents>>
    /\ MemFrame

\* One turn of `for mem in memories` whose search returns: the candidate is
\* kept unless is_duplicate_memory returns True
DedupCheck ==
    /\ mpc = "dedup"
    /\ midx <= Len(memories)
    /\ \E results \in SearchResults(memories[midx].content, mstore) :
          \E dup \in {is_duplicate(results, memories[midx])} :
              /\ unique_memories' = IF dup THEN unique_memories
                                    ELSE Append(unique_memories, memories[midx])
              /\ checks' = Append(checks, [cand |-> memories[midx], failed |-> FALSE,
                                           results |-> results, dup |-> dup])
    /\ midx' = midx + 1
    /\ UNCHANGED <<mstore, mpc, memories, candidates, primary, phases, mevents>>
    /\ MemFrame

\* Mutant of DedupSearchFails: a candidate that could not be checked is dropped.
DedupSearchFailsDrops ==
    /\ mpc = "dedup"
    /\ midx <= Len(memories)
    /\ checks' = Append(checks, [cand |-> memories[midx], failed |-> TRUE,
                                 results |-> {}, dup |-> TRUE])
    /\ midx' = midx + 1
    /\ UNCHANGED <<mstore, mpc, memories, candidates, unique_memories, primary, phases,
                   mevents>>
    /\ MemFrame

\* One turn of the loop whose store.asearch raises: except Exception logs the
\* failure and is_duplicate_memory returns False
DedupSearchFails ==
    /\ mpc = "dedup"
    /\ midx <= Len(memories)
    /\ unique_memories' = Append(unique_memories, memories[midx])
    /\ checks' = Append(checks, [cand |-> memories[midx], failed |-> TRUE,
                                 results |-> {}, dup |-> FALSE])
    /\ midx' = midx + 1
    /\ UNCHANGED <<mstore, mpc, memories, candidates, primary, phases, mevents>>
    /\ MemFrame

\* The loop is over: memories = unique_memories
DedupEnd ==
    /\ mpc = "dedup"
    /\ midx > Len(memories)
    /\ memories' = unique_memories
    /\ mpc' = "return"
    /\ UNCHANGED <<mstore, candidates, unique_memories, midx, primary, phases, checks,
                   mevents>>
    /\ MemFrame

\* return memories; back in _stream: for mem in extracted
Return ==
    /\ mpc = "return"
    /\ phases' = Append(phases, "Persist")
    /\ midx' = 1
    /\ mpc' = "persist"
    /\ UNCHANGED <<mstore, memories, candidates, unique_memories, primary, checks, mevents>>
    /\ MemFrame

\* key = f"learned_{uuid.uuid4().hex[:8]}": one of 16^8 values, drawn without
\* a look at the partition: a key no record holds, or the key of a record
NewKeys(store) == {SetMax({r.key : r \in store} \cup {0}) + 1} \cup {r.key : r \in store}

\* store.aput(namespace, key, value): the value replaces what the key held
aput(store, rec) == {r \in store : r.key # rec.key} \cup {rec}

\* saved = await save_memory(...): store.aput under the key drawn;
\* yield ("memory_saved", saved)
SaveMemory ==
    /\ mpc = "persist"
    /\ midx <= Len(memories)
    /\ \E key \in NewKeys(mstore) :
          mstore' = aput(mstore, Record(key, memories[midx].type, memories[midx].content))
    /\ mevents' = Append(mevents, "memory_saved")
    /\ midx' = midx + 1
    /\ UNCHANGED <<mpc, memories, candidates, unique_memories, primary, phases, checks>>
    /\ MemFrame

\* Mutant of SaveMemoryFails: the failure of a save is reported as an error event.
SaveMemoryFailsAsError ==
    /\ mpc = "persist"
    /\ midx <= Len(memories)
    /\ mevents' = Append(mevents, "error")
    /\ phases' = Append(phases, "Done")
    /\ mpc' = "done"
    /\ UNCHANGED <<mstore, memories, candidates, unique_memories, midx, primary, checks>>
    /\ MemFrame

\* save_memory raises: except Exception: yield ("memory_extraction_failed", ...)
SaveMemoryFails ==
    /\ mpc = "persist"
    /\ midx <= Len(memories)
    /\ mevents' = Append(mevents, "memory_extraction_failed")
    /\ phases' = Append(phases, "Done")
    /\ mpc' = "done"
    /\ UNCHANGED <<mstore, memories, candidates, unique_memories, midx, primary, checks>>
    /\ MemFrame

\* The save loop is over: _stream returns
PersistEnd ==
    /\ mpc = "persist"
    /\ midx > Len(memories)
    /\ phases' = Append(phases, "Done")
    /\ mpc' = "done"
    /\ UNCHANGED <<mstore, memories, candidates, unique_memories, midx, primary, checks,
                   mevents>>
    /\ MemFrame

MemNext ==
    \/ \E txt \in DoneTexts : YieldDone(txt)
    \/ YieldMemoryExtracting
    \/ \E list \in LLMResults : PrimaryReturns(list)
    \/ PrimaryTimesOut
    \/ PrimaryRaises
    \/ Fallback
    \/ DedupGuard
    \/ DedupCheck
    \/ DedupSearchFails
    \/ DedupEnd
    \/ Return
    \/ SaveMemory
    \/ SaveMemoryFails
    \/ PersistEnd

SpecMem == MemInit /\ [][MemNext]_vars

----------------------------------------------------------------------------
(* SpecTools: the loop of _stream over agent.astream_events: the chunks of the
   model go through final_filter, the tool events are yielded as they come.
   The tools of one model message run side by side (create_react_agent), so a
   tool may start while another is in execution. *)

\* An event of astream_events: on_chat_model_stream with the content of its
\* chunk, on_tool_start / on_tool_end with the name of the tool, or another type
SrcEvent(kind, name, txt) == [kind |-> kind, name |-> name, text |-> txt]

\* What _stream yields for an event: ("token", text), ("tool_start", {"name": ...}),
\* ("tool_end", {"name": ...}), or nothing (type "none")
OutEvent(type, name, txt) == [type |-> type, name |-> name, text |-> txt]

ToolNames == {"search_news", "book_meeting_room"}

\* The contents of a chunk: none, text outside the final span, and the final
\* span in two chunks
ChunkContents == {Empty, <<"a">>, OpenTag(Final) \o <<"a">>, CloseTag(Final)}

ToolsInit ==
    /\ text = Empty /\ pos = 0
    /\ tf = TagFilterInit /\ tfRet = Empty /\ tfOut = Empty
    /\ ff = FinalFilterInit
    /\ raw_response = Empty /\ full_response = Empty /\ visible = Empty
    /\ lastEvent = NoEvent /\ spc = "loop"
    /\ BridgeIdle /\ CallerIdleInit /\ MemIdle
    /\ source = << >> /\ running = {} /\ current_tool = "None" /\ yielded = << >>
    /\ FeedIdle /\ PatIdle /\ BookIdle /\ DelIdle
    /\ LateIdle

ToolsFrame ==
    UNCHANGED <<text, pos, tf, tfRet, tfOut, lastEvent, spc, bridgeVars, idleVars, memVars,
                feedVars, patVars, bookVars, delVars,
                lateVars>>

\* OnChatModelStream with the visible text assigned to full_response, not added
OnChatModelStreamAssigns(content) ==
    /\ spc = "loop"
    /\ Len(source) < MaxSource
    /\ source' = Append(source, SrcEvent("on_chat_model_stream", "", content))
    /\ IF content # Empty
       THEN /\ raw_response' = raw_response \o content
            /\ \E r \in {FinalFeed(ff, content)} :
                  /\ ff' = r.st
                  /\ visible' = r.out
                  /\ full_response' = IF r.out # Empty THEN r.out ELSE full_response
                  /\ yielded' = Append(yielded, IF r.out # Empty
                                                THEN OutEvent("token", "", r.out)
                                                ELSE OutEvent("none", "", Empty))
       ELSE /\ yielded' = Append(yielded, OutEvent("none", "", Empty))
            /\ UNCHANGED <<raw_response, ff, visible, full_response>>
    /\ UNCHANGED <<running, current_tool>>
    /\ ToolsFrame

\* on_chat_model_stream: if chunk.content: raw_response += chunk.content;
\* visible = final_filter.feed(chunk.content);
\* if visible: full_response += visible; yield ("token", visible)
OnChatModelStream(content) ==
    /\ spc = "loop"
    /\ Len(source) < MaxSource
    /\ source' = Append(source, SrcEvent("on_chat_model_stream", "", content))
    /\ IF content # Empty
       THEN /\ raw_response' = raw_response \o content
            /\ \E r \in {FinalFeed(ff, content)} :
                  /\ ff' = r.st
                  /\ visible' = r.out
                  /\ full_response' = full_response \o r.out
                  /\ yielded' = Append(yielded, IF r.out # Empty
                                                THEN OutEvent("token", "", r.out)
                                                ELSE OutEvent("none", "", Empty))
       ELSE /\ yielded' = Append(yielded, OutEvent("none", "", Empty))
            /\ UNCHANGED <<raw_response, ff, visible, full_response>>
    /\ UNCHANGED <<running, current_tool>>
    /\ ToolsFrame

\* on_tool_start: current_tool = event.get("name", "unknown");
\* yield ("tool_start", {"name": current_tool, "input": tool_input})
OnToolStart(name) ==
    /\ spc = "loop"
    /\ Len(source) < MaxSource
    /\ name \notin running
    /\ source' = Append(source, SrcEvent("on_tool_start", name, Empty))
    /\ running' = running \cup {name}
    /\ current_tool' = name
    /\ yielded' = Append(yielded, OutEvent("tool_start", name, Empty))
    /\ UNCHANGED <<raw_response, ff, visible, full_response>>
    /\ ToolsFrame

\* on_tool_end of a tool in execution:
\* yield ("tool_end", {"name": current_tool, "output": tool_output})
OnToolEnd(name) ==
    /\ spc = "loop"
    /\ Len(source) < MaxSource
    /\ name \in running
    /\ source' = Append(source, SrcEvent("on_tool_end", name, Empty))
    /\ running' = running \ {name}
    /\ yielded' = Append(yielded, OutEvent("tool_end", current_tool, Empty))
    /\ UNCHANGED <<current_tool, raw_response, ff, visible, full_response>>
    /\ ToolsFrame

\* An event of another type (on_chain_start, on_chat_model_end, ...): no branch
\* of the loop takes it
OnOtherEvent ==
    /\ spc = "loop"
    /\ Len(source) < MaxSource
    /\ source' = Append(source, SrcEvent("other", "", Empty))
    /\ yielded' = Append(yielded, OutEvent("none", "", Empty))
    /\ UNCHANGED <<running, current_tool, raw_response, ff, visible, full_response>>
    /\ ToolsFrame

ToolsNext ==
    \/ \E content \in ChunkContents : OnChatModelStream(content)
    \/ \E name \in ToolNames : OnToolStart(name)
    \/ \E name \in ToolNames : OnToolEnd(name)
    \/ OnOtherEvent
    \/ StreamDone

SpecTools == ToolsInit /\ [][ToolsNext]_vars

----------------------------------------------------------------------------
(* SpecFeed: a ThoughtTagFilter and a FinalAnswerFilter, each fed the same
   model output in consecutive chunks, the empty chunk among them *)

FeedInit ==
    /\ text \in TextsOf(StreamPieces)
    /\ pos = 0
    /\ tf = TagFilterInit /\ tfRet = Empty /\ tfOut = Empty
    /\ ff = FinalFilterInit
    /\ raw_response = Empty /\ full_response = Empty /\ visible = Empty
    /\ lastEvent = NoEvent /\ spc = "idle"
    /\ BridgeIdle /\ CallerIdleInit /\ MemIdle /\ ToolsIdle /\ PatIdle /\ BookIdle /\ DelIdle
    /\ LateIdle
    /\ emptyFed = FALSE

\* tfRet = tf.feed(chunk); visible = ff.feed(chunk), for the next n characters
FeedBoth(n) ==
    /\ \E chunk \in {Slice(text, pos, pos + n)} :
          /\ \E r \in {TagFeed(tf, chunk)} :
                /\ tf' = [in_tag |-> r.in_tag, carry |-> r.carry]
                /\ tfRet' = r.out
                /\ tfOut' = tfOut \o r.out
          /\ \E r \in {FinalFeed(ff, chunk)} :
                /\ ff' = r.st
                /\ visible' = r.out
          /\ emptyFed' = (chunk = Empty)
    /\ pos' = pos + n
    /\ UNCHANGED <<text, raw_response, full_response, lastEvent, spc>>
    /\ UNCHANGED <<bridgeVars, idleVars, memVars, toolVars, patVars, bookVars, delVars,
                lateVars>>

FeedNext == \E n \in 0..(Len(text) - pos) : FeedBoth(n)

SpecFeed == FeedInit /\ [][FeedNext]_vars

----------------------------------------------------------------------------
(* SpecPat: extract_memories_from_message (src/memory/extractor.py), one step
   per pattern.  A message is what re.findall gives on it for each pattern:
   no match, or a first match whose joined and stripped groups are at most
   two characters long or longer. *)

\* PREFERENCE_PATTERNS, by the words each pattern starts from
PREFERENCE_PATTERNS ==
    <<"jizhu", "wo xihuan", "yihou", "xiaci", "pianhao", "gaicheng", "wo xiang", "jide",
      "bang wo jizhu", "buyao wangji", "ba .. ji xialai", "bu zai", "xianzai", "jinhou",
      "huancheng">>

\* INTEREST_PATTERNS
INTEREST_PATTERNS ==
    <<"wo dui", "bang wo guanzhu", "liaojie", "xiang zhidao", "guanzhu yixia", "tuijian">>

Patterns(type) == IF type = "preference" THEN PREFERENCE_PATTERNS ELSE INTEREST_PATTERNS

PatternTypes == {"preference", "interest"}

\* matches = re.findall(pattern, user_message, re.IGNORECASE): empty, or with a
\* first match whose content, groups joined and punctuation stripped, passes
\* `content and len(content) > 2` or not
NoMatch == [hit |-> FALSE, long |-> FALSE]

Match(long) == [hit |-> TRUE, long |-> long]

\* The patterns, as <<type, index>>
AllPatterns ==
    {<<"preference", n>> : n \in 1..Len(PREFERENCE_PATTERNS)}
        \cup {<<"interest", n>> : n \in 1..Len(INTEREST_PATTERNS)}

\* The sets of at most k patterns
RECURSIVE PatternSets(_)
PatternSets(k) ==
    IF k = 0 THEN {{}}
    ELSE LET smaller == PatternSets(k - 1)
         IN  smaller \cup {X \cup {q} : X \in smaller, q \in AllPatterns}

\* The user messages: those on which at most MaxMatches patterns match
UserMessages ==
    UNION {{[ty \in PatternTypes |->
                [n \in 1..Len(Patterns(ty)) |->
                    IF <<ty, n>> \in H THEN Match(<<ty, n>> \in L) ELSE NoMatch]] :
              L \in SUBSET H} :
           H \in PatternSets(MaxMatches)}

PatInit ==
    /\ TextIdle /\ BridgeIdle /\ CallerIdleInit /\ MemIdle /\ ToolsIdle /\ FeedIdle
    /\ BookIdle /\ DelIdle
    /\ LateIdle
    /\ findall \in UserMessages
    /\ ppc = "preference"
    /\ pattern = 1
    /\ found = << >>
    /\ consulted = {}

PatFrame ==
    UNCHANGED <<textVars, bridgeVars, idleVars, memVars, toolVars, feedVars, bookVars, delVars,
                lateVars,
                findall>>

\* The loop that follows the loop over the patterns of a type
AfterLoop(type) == IF type = "preference" THEN "interest" ELSE "return"

\* One turn of `for pattern in ..._PATTERNS`: matches = re.findall(...);
\* if matches: content = ...; if content and len(content) > 2:
\* memories.append(ExtractedMemory(type=..., content=...)); break
\* The content of the memory stands for the pattern whose match it is built from.
PatternStep ==
    /\ ppc \in PatternTypes
    /\ pattern <= Len(Patterns(ppc))
    /\ consulted' = consulted \cup {<<ppc, pattern>>}
    /\ IF findall[ppc][pattern].hit /\ findall[ppc][pattern].long
       THEN /\ found' = Append(found, Memory(ppc, pattern))
            /\ ppc' = AfterLoop(ppc)
            /\ pattern' = 1
       ELSE /\ pattern' = pattern + 1
            /\ UNCHANGED <<found, ppc>>
    /\ PatFrame

\* The list of patterns is exhausted: the loop ends without a break
LoopExhausted ==
    /\ ppc \in PatternTypes
    /\ pattern > Len(Patterns(ppc))
    /\ ppc' = AfterLoop(ppc)
    /\ pattern' = 1
    /\ UNCHANGED <<found, consulted>>
    /\ PatFrame

PatNext == PatternStep \/ LoopExhausted

SpecPat == PatInit /\ [][PatNext]_vars

----------------------------------------------------------------------------
(* SpecBook: book_meeting_room and _normalize_time (src/tools/calendar.py).
   A time argument is a sequence of characters; "pm", "am" and the names of
   the slots are taken as one character each. *)

\* The decimal digits, the digit of n at index n + 1
DigitChars == <<"0", "1", "2", "3", "4", "5", "6", "7", "8", "9">>

IsDigit(c) == \E n \in 1..Len(DigitChars) : DigitChars[n] = c

\* int(c) of one digit
DigitValue(c) == (CHOOSE n \in 1..Len(DigitChars) : DigitChars[n] = c) - 1

\* int(ds) of a string of digits
RECURSIVE int(_)
int(ds) ==
    IF ds = Empty THEN 0
    ELSE int(SubSeq(ds, 1, Len(ds) - 1)) * Len(DigitChars) + DigitValue(ds[Len(ds)])

\* f"{n:02d}" for 0 <= n <= 99
TwoDigits(n) ==
    <<DigitChars[(n \div Len(DigitChars)) + 1], DigitChars[(n % Len(DigitChars)) + 1]>>

\* f"{hour:02d}:{minute:02d}"
HHMM(hour, minute) == TwoDigits(hour) \o <<":">> \o TwoDigits(minute)

\* s.strip()
RECURSIVE lstrip(_)
lstrip(s) == IF s # Empty /\ Head(s) = " " THEN lstrip(Tail(s)) ELSE s

RECURSIVE rstrip(_)
rstrip(s) == IF s # Empty /\ s[Len(s)] = " " THEN rstrip(SubSeq(s, 1, Len(s) - 1)) ELSE s

strip(s) == rstrip(lstrip(s))

\* s.lower()
lower(s) ==
    [k \in 1..Len(s) |-> IF s[k] = "PM" THEN "pm" ELSE IF s[k] = "Evening" THEN "evening"
                         ELSE s[k]]

\* The index after the white space that starts at index p of s (1-based)
RECURSIVE SkipSpaces(_, _)
SkipSpaces(s, p) == IF p <= Len(s) /\ s[p] = " " THEN SkipSpaces(s, p + 1) ELSE p

\* The length of the match of \d{1,2} at index p of s, 0 if none
DigitRun(s, p) ==
    IF p > Len(s) \/ ~IsDigit(s[p]) THEN 0
    ELSE IF p + 1 <= Len(s) /\ IsDigit(s[p + 1]) THEN 2 ELSE 1

\* The match of (\d{1,2})(?:\s*[:：]\s*(\d{1,2}))? at index p of s, where a
\* digit stands: [hour, minute, end], minute -1 when the group took nothing
MatchAt(s, p) ==
    LET a == DigitRun(s, p)
        q == SkipSpaces(s, p + a)
        r == SkipSpaces(s, q + 1)
        b == DigitRun(s, r)
    IN  IF q <= Len(s) /\ s[q] = ":" /\ b > 0
        THEN [hour |-> int(SubSeq(s, p, p + a - 1)), minute |-> int(SubSeq(s, r, r + b - 1)),
              end |-> r + b]
        ELSE [hour |-> int(SubSeq(s, p, p + a - 1)), minute |-> -1, end |-> p + a]

\* if 0 <= hour <= 23 and 0 <= minute <= 59: return f"{hour:02d}:{minute:02d}"
\* return None
ValidTime(hour, minute) ==
    IF 0 <= hour /\ hour <= 23 /\ 0 <= minute /\ minute <= 59 THEN HHMM(hour, minute) ELSE None

\* _normalize_time(value): the fast path when the whole of raw is
\* ^(\d{1,2})\s*[:：]\s*(\d{1,2})$, else the first number of raw, pushed to the
\* afternoon by "pm" and to midnight by "am"
normalize_time(value) ==
    LET raw == strip(value)
        lowered == lower(raw)
        is_pm == \E k \in 1..Len(lowered) : lowered[k] = "pm"
        is_am == \E k \in 1..Len(lowered) : lowered[k] = "am"
        digits == {k \in 1..Len(raw) : IsDigit(raw[k])}
    IN  IF raw = Empty THEN None
        ELSE IF IsDigit(raw[1]) /\ MatchAt(raw, 1).minute # -1
                /\ MatchAt(raw, 1).end = Len(raw) + 1
        THEN ValidTime(MatchAt(raw, 1).hour, MatchAt(raw, 1).minute)
        ELSE IF digits = {} THEN None
        ELSE LET m == MatchAt(raw, SetMin(digits))
                 minute == IF m.minute = -1 THEN 0 ELSE m.minute
                 h1 == IF is_pm /\ m.hour < 12 THEN m.hour + 12 ELSE m.hour
                 hour == IF is_am /\ h1 = 12 THEN 0 ELSE h1
             IN  ValidTime(hour, minute)

\* slot_map
slot_map ==
    [slot \in {"morning", "afternoon", "evening"} |->
        IF slot = "morning" THEN HHMM(9, 0)
        ELSE IF slot = "afternoon" THEN HHMM(14, 0) ELSE HHMM(17, 0)]

\* The pieces of a start_time argument
TimePieces ==
    {<<"1">>, <<"7">>, <<"2", "5">>, <<"3", "0">>, <<"0", "0">>, <<":">>, <<" ">>, <<"pm">>,
     <<"am">>}

\* The start_time arguments: None (or the empty string), and the strings of pieces
StartTimes == UNION {{Flatten(ps) : ps \in [1..k -> TimePieces]} : k \in 0..MaxTimePieces}

\* The time_slot arguments: names of slots, as they are and to be stripped and
\* lowered, and custom times, valid and not
TimeSlots ==
    {<<"afternoon">>, <<" ", "Evening">>, <<"1", "7", ":", "3", "0">>, <<"7", "PM">>,
     <<"2", "5", ":", "0", "0">>, <<"noon">>}

\* A booking made by an earlier call
EarlierBooking == [room |-> "1001", time |-> HHMM(9, 0)]

BookInit ==
    /\ TextIdle /\ BridgeIdle /\ CallerIdleInit /\ MemIdle
    /\ ToolsIdle /\ FeedIdle /\ PatIdle /\ DelIdle
    /\ LateIdle
    /\ bookings \in {<< >>, <<EarlierBooking>>}
    /\ call = NoCall
    /\ outcome = NoOutcome

BookFrame ==
    UNCHANGED <<textVars, bridgeVars, idleVars, memVars, toolVars, feedVars, patVars, delVars,
                lateVars>>

\* The time the call books: [raised, time]
\* if start_time: normalized = _normalize_time(start_time); if not normalized: raise ...
\* else: slot_key = str(time_slot).strip().lower(); if slot_key in slot_map: ...
\* else: normalized = _normalize_time(slot_key); if not normalized: raise ...
DetermineTime(start_time, time_slot) ==
    LET slot_key == lower(strip(time_slot))
    IN  IF start_time # Empty
        THEN IF normalize_time(start_time) = None
             THEN [raised |-> TRUE, time |-> Empty]
             ELSE [raised |-> FALSE, time |-> normalize_time(start_time)]
        ELSE IF Len(slot_key) = 1 /\ slot_key[1] \in DOMAIN slot_map
        THEN [raised |-> FALSE, time |-> slot_map[slot_key[1]]]
        ELSE IF normalize_time(slot_key) = None
        THEN [raised |-> TRUE, time |-> Empty]
        ELSE [raised |-> FALSE, time |-> normalize_time(slot_key)]

\* book_meeting_room with the booking appended before the time is validated
BookBeforeValidating(start_time, time_slot) ==
    /\ ~call.made
    /\ call' = [made |-> TRUE, start_time |-> start_time, time_slot |-> time_slot]
    /\ \E r \in {DetermineTime(start_time, time_slot)} :
          /\ outcome' = r
          /\ bookings' = Append(bookings, [room |-> "1001", time |-> r.time])
    /\ BookFrame

\* book_meeting_room(day, time_slot, start_time, duration_hours, room): raises
\* ValueError, or appends the booking to _bookings and returns the result
book_meeting_room(start_time, time_slot) ==
    /\ ~call.made
    /\ call' = [made |-> TRUE, start_time |-> start_time, time_slot |-> time_slot]
    /\ \E r \in {DetermineTime(start_time, time_slot)} :
          /\ outcome' = r
          /\ bookings' = IF r.raised THEN bookings
                         ELSE Append(bookings, [room |-> "1001", time |-> r.time])
    /\ BookFrame

\* One call is followed: its arguments are drawn while none was made
BookNext ==
    /\ ~call.made
    /\ \E start_time \in StartTimes, time_slot \in TimeSlots :
          book_meeting_room(start_time, time_slot)

SpecBook == BookInit /\ [][BookNext]_vars

----------------------------------------------------------------------------
(* SpecSave: the save loop of _stream (src/services/agent_sync.py) with the
   store and the bridge together, for one turn, from the return of
   extract_memories_with_fallback to the end of the stream. *)

\* What extract_memories_with_fallback may return to _stream
Extracted == UNION {[1..k -> LLMCandidates] : k \in 0..MaxSurvivors}

\* What _stream has yielded when the extraction returns
BeforeSaves == <<BEvent("memories", ""), BEvent("done", ""), BEvent("memory_extracting", "")>>

\* The extraction of turn 1 has returned; the consumer has taken the first n of
\* the events yielded so far.  No other turn was started.
SaveInit ==
    /\ TextIdle /\ CallerIdleInit /\ UnitIdle
    /\ message = [pref |-> FALSE, interest |-> FALSE]
    /\ mstore \in {{}, {Record(1, "preference", 0)}}
    /\ mpc = "persist"
    /\ memories \in Extracted
    /\ candidates = << >> /\ unique_memories = << >> /\ midx = 1
    /\ primary = "none" /\ phases = << >> /\ checks = << >>
    /\ mevents = <<"memory_extracting">>
    /\ done_event = BEvent("done", "")
    /\ tpc = [t \in Turns |-> IF t = 1 THEN "running" ELSE "new"]
    /\ gpc = [t \in Turns |-> IF t # 1 THEN "new"
                               ELSE IF memories = << >> THEN "finally" ELSE "saving"]
    /\ loop_running = 1
    /\ nloop = [t \in Turns |-> 0]
    /\ nsave = [t \in Turns |-> IF t = 1 THEN Len(memories) ELSE 0]
    /\ produced = [t \in Turns |-> IF t = 1 THEN BeforeSaves ELSE << >>]
    /\ puts = [t \in Turns |-> IF t = 1 THEN BeforeSaves ELSE << >>]
    /\ timedOut = [t \in Turns |-> FALSE]
    /\ \E n \in 0..Len(BeforeSaves) :
          /\ observed = [t \in Turns |-> IF t = 1 THEN SubSeq(BeforeSaves, 1, n) ELSE << >>]
          /\ event_queue = [t \in Turns |-> IF t = 1
                                             THEN SubSeq(BeforeSaves, n + 1, Len(BeforeSaves))
                                             ELSE << >>]
          /\ cpc \in {[t \in Turns |-> IF t = 1 THEN c ELSE "new"] :
                        c \in IF n = 0 THEN {"waiting"} ELSE {"waiting", "yielded"}}

SaveFrame ==
    UNCHANGED <<textVars, idleVars, unitVars, message, mpc, memories, candidates,
                unique_memories, primary, phases, checks, done_event>>

\* Mutant of SaveRaises: the failure is reported and the loop goes on with the
\* next memory.
SaveRaisesContinues(t) ==
    /\ gpc[t] = "saving"
    /\ midx <= Len(memories)
    /\ midx' = midx + 1
    /\ nsave' = [nsave EXCEPT ![t] = @ - 1]
    /\ mevents' = Append(mevents, "memory_extraction_failed")
    /\ Yield(t, BEvent("memory_extraction_failed", ""),
             IF midx = Len(memories) THEN "finally" ELSE "saving")
    /\ UNCHANGED <<mstore, tpc, cpc, loop_running, nloop, observed, timedOut>>
    /\ SaveFrame

\* for mem in extracted: saved = await save_memory(...) raises, at aput:
\* except Exception: yield ("memory_extraction_failed", ...); _stream returns
SaveRaises(t) ==
    /\ gpc[t] = "saving"
    /\ midx <= Len(memories)
    /\ mevents' = Append(mevents, "memory_extraction_failed")
    /\ Yield(t, BEvent("memory_extraction_failed", ""), "finally")
    /\ UNCHANGED <<mstore, midx, nsave, tpc, cpc, loop_running, nloop, observed, timedOut>>
    /\ SaveFrame

\* saved = await save_memory(...) returns, the record written under the key
\* drawn; yield ("memory_saved", saved); the loop ends after the last memory
SaveAndYield(t) ==
    /\ gpc[t] = "saving"
    /\ midx <= Len(memories)
    /\ \E key \in NewKeys(mstore) :
          mstore' = aput(mstore, Record(key, memories[midx].type, memories[midx].content))
    /\ midx' = midx + 1
    /\ nsave' = [nsave EXCEPT ![t] = @ - 1]
    /\ mevents' = Append(mevents, "memory_saved")
    /\ Yield(t, BEvent("memory_saved", ""),
             IF midx = Len(memories) THEN "finally" ELSE "saving")
    /\ UNCHANGED <<tpc, cpc, loop_running, nloop, observed, timedOut>>
    /\ SaveFrame

SaveNext ==
    \E t \in Turns :
        \/ SaveAndYield(t)
        \/ SaveRaises(t)
        \/ PutSentinel(t)
        \/ ThreadExit(t)
        \/ Get(t)
        \/ GetTimeout(t)
        \/ Resume(t)
        \/ ResumeAfterTimeout(t)

SpecSave == SaveInit /\ [][SaveNext]_vars

----------------------------------------------------------------------------
(* SpecChat: the /api/chat endpoint (src/api/chat.py): _run_agent collects the
   chunks of the model and chat returns what it collected. *)

ChatInit ==
    /\ text \in TextsOf(StreamPieces)
    /\ pos = 0
    /\ tf = TagFilterInit /\ tfRet = Empty /\ tfOut = Empty
    /\ ff = FinalFilterInit
    /\ raw_response = Empty /\ full_response = Empty /\ visible = Empty
    /\ lastEvent = NoEvent /\ spc = "chat"
    /\ BridgeIdle /\ CallerIdleInit /\ MemIdle /\ UnitIdle

\* on_chat_model_stream with a chunk of the next n characters:
\* if hasattr(chunk, "content") and chunk.content: full_response += chunk.content
ChatChunk(n) ==
    /\ spc = "chat"
    /\ full_response' = full_response \o Slice(text, pos, pos + n)
    /\ pos' = pos + n
    /\ UNCHANGED <<text, tf, tfRet, tfOut, ff, raw_response, visible, lastEvent, spc>>
    /\ UNCHANGED <<bridgeVars, idleVars, memVars, unitVars>>

\* return full_response; response_text = run_async(_run_agent());
\* return ChatResponse(... Message(role="assistant", content=response_text) ...)
ChatReturn ==
    /\ spc = "chat"
    /\ pos = Len(text)
    /\ lastEvent' = Event("response", full_response)
    /\ spc' = "returned"
    /\ UNCHANGED <<text, pos, tf, tfRet, tfOut, ff, raw_response, full_response, visible>>
    /\ UNCHANGED <<bridgeVars, idleVars, memVars, unitVars>>

ChatNext ==
    \/ \E n \in 1..(Len(text) - pos) : ChatChunk(n)
    \/ ChatReturn

SpecChat == ChatInit /\ [][ChatNext]_vars

----------------------------------------------------------------------------
(* SpecInit: connect_store (src/services/store_sync.py), initialize_agent and
   get_agent (src/services/agent_sync.py) called by several threads, each once.
   A thread can be descheduled between any two steps; run_until_complete
   raises RuntimeError when the loop is already running. *)

EntryPoints == {"connect_store", "initialize_agent", "get_agent"}

StartInit ==
    /\ TextIdle /\ BridgeIdle /\ CallerIdleInit /\ MemIdle
    /\ ToolsIdle /\ FeedIdle /\ PatIdle /\ BookIdle /\ DelIdle /\ UpdIdle
    /\ globals = NoGlobals /\ effects = NoEffects
    /\ ipc = [t \in Callers |-> "idle"]
    /\ got = [t \in Callers |-> NotCalled]

StartFrame ==
    UNCHANGED <<textVars, bridgeVars, idleVars, memVars, toolVars, feedVars, patVars, bookVars,
                delVars, updVars>>

\* Where thread t goes on when connect_store returns
AfterConnect(t) == IF got[t].entry = "connect_store" THEN "done" ELSE "load"

\* Where thread t goes on when initialize_agent returns
AfterInitialize(t) == IF got[t].entry = "get_agent" THEN "return_agent" ELSE "done"

\* Thread t calls one of the three functions
Call(t, f) ==
    /\ ipc[t] = "idle"
    /\ got' = [got EXCEPT ![t].entry = f]
    /\ ipc' = [ipc EXCEPT ![t] = IF f = "get_agent" THEN "get_agent"
                                  ELSE IF f = "initialize_agent" THEN "initialize_agent"
                                  ELSE "connect_store"]
    /\ UNCHANGED <<globals, effects>>
    /\ StartFrame

\* get_agent: if not _initialized: initialize_agent()
GetAgentCheck(t) ==
    /\ ipc[t] = "get_agent"
    /\ ipc' = [ipc EXCEPT ![t] = IF globals.initialized THEN "return_agent"
                                  ELSE "initialize_agent"]
    /\ UNCHANGED <<globals, effects, got>>
    /\ StartFrame

\* initialize_agent: if _initialized: return; store = connect_store()
InitializeCheck(t) ==
    /\ ipc[t] = "initialize_agent"
    /\ ipc' = [ipc EXCEPT ![t] = IF globals.initialized THEN AfterInitialize(t)
                                  ELSE "connect_store"]
    /\ UNCHANGED <<globals, effects, got>>
    /\ StartFrame

\* connect_store: if _store is not None: return _store
ConnectCheck(t) ==
    /\ ipc[t] = "connect_store"
    /\ IF globals.store # 0
       THEN /\ got' = [got EXCEPT ![t].store = globals.store]
            /\ ipc' = [ipc EXCEPT ![t] = AfterConnect(t)]
       ELSE /\ ipc' = [ipc EXCEPT ![t] = "connect"]
            /\ UNCHANGED got
    /\ UNCHANGED <<globals, effects>>
    /\ StartFrame

\* loop.run_until_complete(_connect()) starts: the connection of thread t is
\* opened by store_cm.__aenter__(), unless the loop is running
ConnectBegin(t) ==
    /\ ipc[t] = "connect"
    /\ IF globals.running
       THEN /\ ipc' = [ipc EXCEPT ![t] = "raised"]
            /\ UNCHANGED <<globals, effects>>
       ELSE /\ globals' = [globals EXCEPT !.running = TRUE]
            /\ effects' = [effects EXCEPT !.opened = @ \cup {t}]
            /\ ipc' = [ipc EXCEPT ![t] = "connecting"]
    /\ UNCHANGED got
    /\ StartFrame

\* _store, _store_cm = loop.run_until_complete(_connect()) returns; return _store
ConnectEnd(t) ==
    /\ ipc[t] = "connecting"
    /\ globals' = [globals EXCEPT !.running = FALSE, !.store = t]
    /\ got' = [got EXCEPT ![t].store = t]
    /\ ipc' = [ipc EXCEPT ![t] = AfterConnect(t)]
    /\ UNCHANGED effects
    /\ StartFrame

\* run_async(load_preset_memories(store, user_id="demo_user")) starts
LoadBegin(t) ==
    /\ ipc[t] = "load"
    /\ IF globals.running
       THEN /\ ipc' = [ipc EXCEPT ![t] = "raised"]
            /\ UNCHANGED globals
       ELSE /\ globals' = [globals EXCEPT !.running = TRUE]
            /\ ipc' = [ipc EXCEPT ![t] = "loading"]
    /\ UNCHANGED <<effects, got>>
    /\ StartFrame

\* ... and returns, the presets loaded
LoadEnd(t) ==
    /\ ipc[t] = "loading"
    /\ globals' = [globals EXCEPT !.running = FALSE]
    /\ effects' = [effects EXCEPT !.loaded = @ + 1]
    /\ ipc' = [ipc EXCEPT ![t] = "create"]
    /\ UNCHANGED got
    /\ StartFrame

\* _agent = create_agent(store=store); _initialized = True
CreateAgent(t) ==
    /\ ipc[t] = "create"
    /\ globals' = [globals EXCEPT !.agent = t, !.initialized = TRUE]
    /\ effects' = [effects EXCEPT !.created = @ \cup {t}]
    /\ ipc' = [ipc EXCEPT ![t] = AfterInitialize(t)]
    /\ UNCHANGED got
    /\ StartFrame

\* get_agent: return _agent
ReturnAgent(t) ==
    /\ ipc[t] = "return_agent"
    /\ got' = [got EXCEPT ![t].agent = globals.agent]
    /\ ipc' = [ipc EXCEPT ![t] = "done"]
    /\ UNCHANGED <<globals, effects>>
    /\ StartFrame

StartNext ==
    \E t \in Callers :
        \/ \E f \in EntryPoints : Call(t, f)
        \/ GetAgentCheck(t)
        \/ InitializeCheck(t)
        \/ ConnectCheck(t)
        \/ ConnectBegin(t)
        \/ ConnectEnd(t)
        \/ LoadBegin(t)
        \/ LoadEnd(t)
        \/ CreateAgent(t)
        \/ ReturnAgent(t)

SpecInit == StartInit /\ [][StartNext]_vars

----------------------------------------------------------------------------
(* SpecDel: delete_memory (src/memory/extractor.py) on the partition of one
   user. *)

\* The keys delete_memory is called with: those a partition can hold and one
\* that none holds
DeleteKeys == 1..(MaxOthers + 4)

\* store.adelete(namespace, key): the store without the record of that key,
\* the store as it is when it holds none
adelete(store, key) == {r \in store : r.key # key}

DelInit ==
    /\ TextIdle /\ BridgeIdle /\ CallerIdleInit /\ ToolsIdle /\ FeedIdle /\ PatIdle /\ BookIdle
    /\ LateIdle
    /\ message = [pref |-> FALSE, interest |-> FALSE]
    /\ mstore \in Partitions
    /\ mpc = "idle"
    /\ memories = << >> /\ candidates = << >> /\ unique_memories = << >> /\ midx = 0
    /\ primary = "none" /\ phases = << >> /\ checks = << >> /\ mevents = << >>
    /\ done_event = NoDone
    /\ deleted_key = 0
    /\ deletion = NoDeletion

DelFrame ==
    UNCHANGED <<textVars, bridgeVars, idleVars, toolVars, feedVars, patVars, bookVars, lateVars,
                message, mpc, memories, candidates, unique_memories, midx, primary, phases,
                checks, mevents, done_event>>

\* delete_memory(store, user_id, key):
\* try: await store.adelete(namespace, key); return True
\* except Exception: return False
delete_memory(key) ==
    /\ deleted_key' = key
    /\ \E raised \in BOOLEAN :
          /\ deletion' = [called |-> TRUE, raised |-> raised, returned |-> ~raised]
          /\ mstore' = IF raised THEN mstore ELSE adelete(mstore, key)
    /\ DelFrame

DelNext == \E key \in DeleteKeys : delete_memory(key)

SpecDel == DelInit /\ [][DelNext]_vars

----------------------------------------------------------------------------
(* Reference notions the claims are stated with *)

\* Whether p occurs in s at index k (0-based)
OccursAt(s, p, k) == k + Len(p) <= Len(s) /\ SubSeq(s, k + 1, k + Len(p)) = p

Chars(s) == {s[k] : k \in 1..Len(s)}

HiddenTagSet == {Think, Analysis}

\* The indices of s that lie inside a hidden span, read left to right: a span
\* starts after an opening hidden tag met outside any span and runs up to the
\* matching closing tag, or to the end of s while that tag has not come.
RECURSIVE HiddenFrom(_, _, _)
HiddenFrom(s, i, open) ==
    IF i >= Len(s) THEN {}
    ELSE IF open # None
    THEN IF OccursAt(s, CloseTag(open), i)
         THEN HiddenFrom(s, i + Len(CloseTag(open)), None)
         ELSE {i} \cup HiddenFrom(s, i + 1, open)
    ELSE IF \E t \in HiddenTagSet : OccursAt(s, OpenTag(t), i)
    THEN LET t == CHOOSE u \in HiddenTagSet : OccursAt(s, OpenTag(u), i)
         IN  HiddenFrom(s, i + Len(OpenTag(t)), t)
    ELSE HiddenFrom(s, i + 1, None)

HiddenIndices(s) == HiddenFrom(s, 0, None)

\* Every reasoning character "h" of s lies inside a hidden span.
ReasoningIsHidden(s) == \A k \in 0..(Len(s) - 1) : s[k + 1] = "h" => k \in HiddenIndices(s)

\* s holds a complete opening or closing hidden tag.
HasHiddenTag(s) ==
    \E t \in HiddenTagSet, k \in 0..Len(s) :
        OccursAt(s, OpenTag(t), k) \/ OccursAt(s, CloseTag(t), k)

\* s ends with a non-empty strict prefix of an opening or closing hidden tag.
EndsWithTagPrefix(s) ==
    \E t \in HiddenTagSet, m \in 1..Len(s) :
        LET suffix == SubSeq(s, Len(s) - m + 1, Len(s))
        IN  \/ (m < Len(OpenTag(t)) /\ IsPrefix(suffix, OpenTag(t)))
            \/ (m < Len(CloseTag(t)) /\ IsPrefix(suffix, CloseTag(t)))

\* text has the form <t>X</t>Y, X running up to the first </t>
IsForm(t) == StartsWith(text, OpenTag(t)) /\ Find(text, CloseTag(t), Len(OpenTag(t))) # -1

FormX(t) == Slice(text, Len(OpenTag(t)), Find(text, CloseTag(t), Len(OpenTag(t))))

FormY(t) == SliceFrom(text, Find(text, CloseTag(t), Len(OpenTag(t))) + Len(CloseTag(t)))

\* The text between the first <final> of s and the </final> that follows it
\* (the rest of s while it has not come); empty when s has no <final>.
FinalSpanOf(s) ==
    LET j == Find(s, OpenTag(Final), 0)
        rest == SliceFrom(s, j + Len(OpenTag(Final)))
        k == Find(rest, CloseTag(Final), 0)
    IN  IF j = -1 THEN Empty
        ELSE IF k = -1 THEN rest
        ELSE Slice(rest, 0, k)

----------------------------------------------------------------------------
(* Claims on the text pipeline *)

C2_SplitInvarianceAnyTail ==
    \A t \in HiddenTagSet : (IsForm(t) /\ pos = Len(text)) => tfOut = FormY(t)

\* C2 amended (SpecTag): for every input <t>X</t>Y in which Y holds no complete
\* hidden tag and does not end with a non-empty strict prefix of one, and for
\* every split into chunks, the concatenated outputs equal Y.
C2_SplitInvariancePlainTail ==
    \A t \in HiddenTagSet :
        (IsForm(t) /\ pos = Len(text) /\ ~HasHiddenTag(FormY(t)) /\ ~EndsWithTagPrefix(FormY(t)))
            => tfOut = FormY(t)

\* C2 witness: an <analysis> input with non-empty X and Y, wholly fed, the last
\* chunk starting inside the closing tag.
C2_Witness ==
    /\ IsForm(Analysis) /\ pos = Len(text)
    /\ FormX(Analysis) # Empty /\ FormY(Analysis) # Empty
    /\ ~HasHiddenTag(FormY(Analysis)) /\ ~EndsWithTagPrefix(FormY(Analysis))
    /\ tfRet = FormY(Analysis)
    /\ tfOut = FormY(Analysis)

\* C3 (SpecStream): FinalAnswerFilter emits only text of the first final span
\* of the hidden-tag-stripped stream: nothing while no <final> has been
\* completed, and at any time the emitted text is a prefix of that span, so
\* nothing after </final> and nothing of a hidden span.
C3_OnlyFinalSpanEmitted ==
    /\ ~ff.seen_final => (visible = Empty /\ full_response = Empty)
    /\ IsPrefix(full_response, FinalSpanOf(strip_hidden_reasoning(raw_response)))

\* C3 witness: a reasoning span came before <final>, the span was closed, and
\* its text is what has been emitted.
C3_Witness ==
    /\ ff.done /\ full_response # Empty
    /\ "h" \in Chars(raw_response)
    /\ Find(raw_response, OpenTag(Think), 0) # -1
    /\ Find(raw_response, OpenTag(Think), 0) < Find(raw_response, OpenTag(Final), 0)
    /\ full_response = FinalSpanOf(strip_hidden_reasoning(raw_response))

----------------------------------------------------------------------------
(* Claims on the bridge *)

Range(seq) == {seq[i] : i \in 1..Len(seq)}

CountOf(seq, S) == Cardinality({i \in 1..Len(seq) : seq[i] \in S})

TypesCount(seq, T) == Cardinality({i \in 1..Len(seq) : seq[i].type \in T})

\* The producer routine of turn t raised
Faulted(t) == ProducerError \in Range(puts[t])

\* The producer routine of turn t ran to its end without raising
CompletedNormally(t) == gpc[t] = "returned" /\ ~Faulted(t)

\* C4 as stated (Spec): whenever the producer has completed normally and the
\* iteration has ended, the consumer has observed exactly the events yielded.
C4_OrderingInEveryRun ==
    \A t \in Turns : (CompletedNormally(t) /\ cpc[t] = "ended") => observed[t] = produced[t]

\* C4 amended (Spec): as long as no wait of the consumer has timed out, what it
\* has observed is a prefix of what was put on the queue, in order; and when
\* the producer has completed normally and the iteration has ended without a
\* timeout, the consumer has observed exactly the events yielded.
C4_OrderingUnlessTimeout ==
    \A t \in Turns :
        ~timedOut[t] =>
            /\ IsPrefix(observed[t], SelectSeq(puts[t], LAMBDA e : e # SENTINEL))
            /\ (CompletedNormally(t) /\ cpc[t] = "ended") => observed[t] = produced[t]

\* C4 witness: a turn that yielded memories, a token, done and the memory
\* events has ended with all of them observed.
C4_Witness ==
    \E t \in Turns :
        /\ CompletedNormally(t) /\ cpc[t] = "ended" /\ ~timedOut[t]
        /\ Len(produced[t]) >= 5
        /\ observed[t] = produced[t]

\* C5 as stated (Spec): whenever the producer routine raised and the iteration
\* has ended, the consumer has observed the events yielded and then the one
\* error event of the fault.
C5_FaultInEveryRun ==
    \A t \in Turns :
        (Faulted(t) /\ cpc[t] = "ended") => observed[t] = Append(produced[t], ProducerError)

\* C5 amended (Spec): when the producer routine raised and the iteration has
\* ended, the consumer has observed exactly one error event, as its last
\* event; unless a wait timed out first, it has observed all events yielded
\* before the fault and then the error event of the fault.
C5_FaultUnlessTimeout ==
    \A t \in Turns :
        (Faulted(t) /\ cpc[t] = "ended") =>
            /\ TypesCount(observed[t], {"error"}) = 1
            /\ observed[t][Len(observed[t])].type = "error"
            /\ ~timedOut[t] => observed[t] = Append(produced[t], ProducerError)

\* C5 witness: the producer raised after two events, and the iteration ended
\* with both and the error observed.
C5_Witness ==
    \E t \in Turns :
        /\ Faulted(t) /\ cpc[t] = "ended" /\ ~timedOut[t]
        /\ Len(produced[t]) = 2
        /\ observed[t] = Append(produced[t], ProducerError)

\* C6 (Spec): the sentinel is put at most once, it is the last item put, it is
\* put only when the producer routine has returned (or was never run, the
\* event loop having refused the coroutine), and a thread that has ended has
\* put it exactly once.
C6_SentinelOnceAndLast ==
    \A t \in Turns :
        LET n == CountOf(puts[t], {SENTINEL})
        IN  /\ n <= 1
            /\ n = 1 =>
                  /\ puts[t][Len(puts[t])] = SENTINEL
                  /\ \/ gpc[t] = "returned"
                     \/ (gpc[t] = "new" /\ tpc[t] = "exited")
            /\ tpc[t] = "exited" => n = 1

\* C6 witness: a thread has ended after a producer fault, with memories, the
\* error and then the sentinel put.
C6_Witness ==
    \E t \in Turns :
        /\ tpc[t] = "exited" /\ Faulted(t)
        /\ puts[t] = <<BEvent("memories", ""), ProducerError, SENTINEL>>

\* C7 (LiveSpec): a consumer that waits in get always comes out of it, and the
\* iteration always ends, whether the producer completes, raises or hangs.
C7_ConsumerLiveness ==
    \A t \in Turns :
        /\ (cpc[t] = "waiting") ~> (cpc[t] # "waiting")
        /\ (cpc[t] = "waiting") ~> (cpc[t] = "ended")

\* C7 witness: the iteration of the second turn has ended by a timeout while
\* its producer is still suspended in the model loop.
C7_Witness ==
    /\ cpc[2] = "ended" /\ timedOut[2]
    /\ gpc[2] = "loop"

\* C8 (Spec): once a wait has timed out, the timeout error is the one error
\* observed and the last event observed for good, the consumer is not waiting
\* again, and the step of the timeout leaves the thread, the coroutine, the
\* queue and the event loop as they were.
C8_TimeoutEndsIteration ==
    /\ [](\A t \in Turns :
            timedOut[t] =>
                /\ observed[t] # << >>
                /\ observed[t][Len(observed[t])] = TimeoutError
                /\ CountOf(observed[t], {TimeoutError}) = 1
                /\ cpc[t] \in {"yielded_timeout", "ended"})
    /\ [][\A t \in Turns :
            /\ timedOut[t] => observed'[t] = observed[t]
            /\ (~timedOut[t] /\ timedOut'[t]) =>
                  UNCHANGED <<tpc, gpc, event_queue, loop_running>>]_vars

\* C8 witness: after the timeout the producer went on to its end, and what it
\* put since is still on the queue of the ended iteration.
C8_Witness ==
    \E t \in Turns :
        /\ timedOut[t] /\ cpc[t] = "ended"
        /\ gpc[t] = "returned"
        /\ Len(event_queue[t]) >= 3
        /\ observed[t] = <<BEvent("memories", ""), TimeoutError>>

Terminal == {"done", "error"}

MemoryEvents == {"memory_extracting", "memory_saved", "memory_extraction_failed"}

\* C9 as stated (Spec): no event follows a done or an error event, and an
\* ended iteration has observed exactly one of them.
C9_OneTerminalEventLast ==
    \A t \in Turns :
        /\ \A i \in 1..Len(observed[t]) :
              observed[t][i].type \in Terminal => i = Len(observed[t])
        /\ cpc[t] = "ended" => TypesCount(observed[t], Terminal) = 1

\* C9 amended (Spec): at most one done and at most one error event are
\* observed and an ended iteration has observed at least one of them; an error
\* event is the last event; a done event is followed only by memory_extracting,
\* memory_saved and memory_extraction_failed events and, last, possibly the
\* timeout error.
C9_TerminalEvents ==
    \A t \in Turns :
        /\ TypesCount(observed[t], {"done"}) <= 1
        /\ TypesCount(observed[t], {"error"}) <= 1
        /\ cpc[t] = "ended" => TypesCount(observed[t], Terminal) >= 1
        /\ \A i \in 1..Len(observed[t]) :
              /\ observed[t][i].type = "error" => i = Len(observed[t])
              /\ observed[t][i].type = "done" =>
                    \A j \in (i + 1)..Len(observed[t]) :
                        \/ observed[t][j].type \in MemoryEvents
                        \/ observed[t][j] = TimeoutError

\* C9 witness: an ended iteration in which done was followed by
\* memory_extracting and memory_saved.
C9_Witness ==
    \E t \in Turns :
        /\ cpc[t] = "ended"
        /\ Len(observed[t]) >= 3
        /\ observed[t][Len(observed[t]) - 2].type = "done"
        /\ observed[t][Len(observed[t]) - 1].type = "memory_extracting"
        /\ observed[t][Len(observed[t])].type = "memory_saved"

\* C10 as stated (Spec): every turn drives its own producer, whatever the
\* other turn does: the event loop never refuses the coroutine of a turn.
C10_TurnIsolation ==
    \A t \in Turns :
        /\ tpc[t] \notin {"loop_error", "loop_error_sentinel"}
        /\ LoopError \notin Range(puts[t])

----------------------------------------------------------------------------
(* Claims on the filters' state and on the done text *)

\* C11 as stated (SpecStream): when the stream has ended, the done text is the
\* hidden-tag-stripped raw text if no <final> was seen, and exactly the text
\* emitted from the final span, possibly empty, whenever one was seen.
C11_FallbackIffNoFinal ==
    spc = "done" =>
        /\ ~ff.seen_final => lastEvent.text = strip_hidden_reasoning(raw_response)
        /\ ff.seen_final => lastEvent.text = full_response

\* C12 (SpecStream): a FinalAnswerFilter that is done stays done and unchanged,
\* every later feed returns empty and adds nothing to the response; and what
\* was emitted when it became done is the first final span of the stripped
\* stream, the rest of that chunk and later <final> spans contributing nothing.
C12_DoneIsAbsorbing ==
    /\ [](ff.done => full_response = FinalSpanOf(strip_hidden_reasoning(raw_response)))
    /\ [][ff.done =>
            /\ ff' = ff
            /\ full_response' = full_response
            /\ pos' # pos => visible' = Empty]_vars

\* C12 witness: after <final>a</final> a second span <final>a was fed in a
\* later call, which returned empty; the response is still the first span.
C12_Witness ==
    /\ ff.done
    /\ raw_response = OpenTag(Final) \o <<"a">> \o CloseTag(Final) \o OpenTag(Final) \o <<"a">>
    /\ visible = Empty
    /\ full_response = <<"a">>

\* c is a non-empty strict prefix of an opening or closing tag of a name in T
StrictTagPrefix(c, T) ==
    /\ c # Empty
    /\ \E t \in T :
          \/ (Len(c) < Len(OpenTag(t)) /\ IsPrefix(c, OpenTag(t)))
          \/ (Len(c) < Len(CloseTag(t)) /\ IsPrefix(c, CloseTag(t)))

\* The carry of a ThoughtTagFilter as the claim has it
TagCarryIsPrefix(st) == st.carry = Empty \/ StrictTagPrefix(st.carry, HiddenTagSet)

\* The carry of a ThoughtTagFilter as the code keeps it: outside a hidden tag
\* empty or a strict prefix of a hidden tag; inside one, at most len(close) - 1
\* characters of the hidden text, the closing tag of the open tag not among them.
TagCarryShape(st) ==
    IF st.in_tag = None
    THEN TagCarryIsPrefix(st)
    ELSE /\ Len(st.carry) <= Len(CloseTag(st.in_tag)) - 1
         /\ Find(st.carry, CloseTag(st.in_tag), 0) = -1

LongestTag(T) == SetMax({Len(OpenTag(t)) : t \in T} \cup {Len(CloseTag(t)) : t \in T})

\* C14 (SpecStream): after every feed, whatever the length of the input and
\* whether or not a hidden tag or the final span is ever closed, each carry is
\* shorter than the longest tag literal its filter recognizes.
C14_CarryIsBounded ==
    /\ Len(ff.carry) < LongestTag({Final})
    /\ Len(ff.hidden.carry) < LongestTag(HiddenTagSet)
    /\ Len(tf.carry) < LongestTag(HiddenTagSet)

\* C14 witness: an <analysis> that was never closed has been fed more than
\* twice the longest tag literal, and the carry holds len(close) - 1 characters.
C14_Witness ==
    /\ ff.hidden.in_tag = Analysis
    /\ pos = Len(text)
    /\ Len(raw_response) > 2 * LongestTag(HiddenTagSet)
    /\ Len(ff.hidden.carry) = Len(CloseTag(Analysis)) - 1

----------------------------------------------------------------------------
(* Claims on the failure of the event loop and on the idle caller *)

\* C15 (Spec): when run_until_complete raised, so that the coroutine of the
\* turn never ran, the thread ends having put exactly the loop error and then
\* the sentinel, and a consumer whose iteration has ended has observed exactly
\* the one error event.
C15_LoopErrorIsReported ==
    \A t \in Turns :
        /\ (gpc[t] = "new" /\ tpc[t] = "exited") => puts[t] = <<LoopError, SENTINEL>>
        /\ (gpc[t] = "new" /\ cpc[t] = "ended") => observed[t] = <<LoopError>>

\* C15 witness: a turn whose coroutine never ran has ended with the loop error
\* observed.
C15_Witness ==
    \E t \in Turns :
        /\ gpc[t] = "new" /\ tpc[t] = "exited" /\ cpc[t] = "ended"
        /\ observed[t] = <<LoopError>>

\* C16 as stated (SpecIdle): a consumer that let more than the per-item timeout
\* pass without a next() call has, when its iteration ends, observed the
\* timeout error.
C16_IdleConsumerTimesOut ==
    \A t \in Turns : (idled[t] /\ cpc[t] = "ended") => timedOut[t]

\* C16 amended (SpecIdle): the timeout error arises only in a step taken by a
\* consumer that waits in get on an empty queue while the producer is
\* suspended; the pause of a caller between two pulls changes nothing of the
\* bridge, and after it the events put on the queue are delivered in order as
\* before, the whole yielded sequence when the producer completes normally.
C16_TimeoutOnlyWhileWaiting ==
    /\ [][\A t \in Turns :
            /\ (~timedOut[t] /\ timedOut'[t]) =>
                  (cpc[t] = "waiting" /\ event_queue[t] = << >> /\ gpc[t] \in AwaitPoints)
            /\ (~idled[t] /\ idled'[t]) => UNCHANGED bridgeVars]_vars
    /\ [](\A t \in Turns :
            (idled[t] /\ ~timedOut[t]) =>
                /\ IsPrefix(observed[t], SelectSeq(puts[t], LAMBDA e : e # SENTINEL))
                /\ (CompletedNormally(t) /\ cpc[t] = "ended") => observed[t] = produced[t])

\* C16 witness: a caller paused for longer than the timeout while the producer
\* was still running, then pulled on, and its iteration has ended with every
\* yielded event observed and no timeout.
C16_Witness ==
    \E t \in Turns :
        /\ idled[t] /\ cpc[t] = "ended" /\ ~timedOut[t]
        /\ CompletedNormally(t)
        /\ Len(produced[t]) >= 5
        /\ observed[t] = produced[t]

----------------------------------------------------------------------------
(* Claims on the memory pipeline *)

PrimaryFailed == primary \in {"timeout", "error"}

\* C17 (SpecMem): once the model-based extractor has timed out or raised and
\* the fallback has run, the candidates are exactly those of the pattern
\* extractor for the message, and the pipeline goes on to dedup and persist:
\* the failure does not end it.
C17_FallbackOnPrimaryFailure ==
    (PrimaryFailed /\ mpc \notin {"primary", "fallback"}) =>
        /\ candidates = extract_memories_from_message(message)
        /\ "Fallback" \in Range(phases)
        /\ mpc = "done" => "Persist" \in Range(phases)

\* C17 witness: the model call timed out on a message in which both a
\* preference and an interest pattern match, and both candidates were saved.
C17_Witness ==
    /\ primary = "timeout" /\ mpc = "done"
    /\ candidates = <<Memory("preference", 0), Memory("interest", 0)>>
    /\ mevents = <<"memory_extracting", "memory_saved", "memory_saved">>

\* The two orders in which the pipeline passes its phases
PhasePaths ==
    {<<"TryPrimary", "Dedup", "Persist", "Done">>,
     <<"TryPrimary", "Fallback", "Dedup", "Persist", "Done">>}

\* C18 (SpecMem): the phases entered so far are always the beginning of
\* TryPrimary, Dedup, Persist, Done or of TryPrimary, Fallback, Dedup, Persist,
\* Done; Fallback is entered only after a timeout or failure of the primary
\* extractor, never after a primary result, the empty list included; and the
\* pipeline can stop nowhere but at its end.
C18_PhaseOrder ==
    /\ \E path \in PhasePaths : IsPrefix(phases, path)
    /\ "Fallback" \in Range(phases) => PrimaryFailed
    /\ (PrimaryFailed /\ mpc \notin {"primary", "fallback"}) => "Fallback" \in Range(phases)
    /\ ~(ENABLED MemNext) => (mpc = "done" /\ phases \in PhasePaths)

\* C18 witness: on a message the pattern extractor has a candidate for, the
\* model returned the empty list, and the pipeline ended without the fallback.
C18_Witness ==
    /\ message.pref
    /\ primary = "ok" /\ candidates = << >>
    /\ mpc = "done"
    /\ phases = <<"TryPrimary", "Dedup", "Persist", "Done">>

\* C19 as stated (SpecMem): a candidate whose search returned is dropped if and
\* only if some record of its type in the partition has similarity of at least
\* 0.85 (the partition is as it was before the batch until the first save).
C19_DedupDecision ==
    mpc \in {"dedup", "return"} =>
        \A i \in 1..Len(checks) :
            ~checks[i].failed =>
                (checks[i].dup <=>
                    \E rec \in mstore :
                        /\ rec.type = checks[i].cand.type
                        /\ 100 - Score(checks[i].cand.content, rec) >= similarity_threshold)

\* The candidates that the dedup checks cs, taken in order, let through
RECURSIVE Survivors(_, _)
Survivors(cands, cs) ==
    IF cands = << >> \/ cs = << >> THEN << >>
    ELSE (IF Head(cs).dup THEN << >> ELSE <<Head(cands)>>)
            \o Survivors(Tail(cands), Tail(cs))

\* C20 (SpecMem): a candidate whose similarity search failed is treated as not
\* a duplicate; every candidate is checked, whatever checks failed before it,
\* and the survivors are those the checks let through, in order; the dedup
\* phase yields no event; memory_extraction_failed comes only from a save that
\* raised; and when no save raised a save was made for every survivor, the
\* store holding the record of the last one.
C20_PermissiveDedupFailure ==
    /\ \A i \in 1..Len(checks) : checks[i].failed => ~checks[i].dup
    /\ (mpc \in {"return", "persist", "done"} /\ candidates # << >>) =>
          /\ Len(checks) = Len(candidates)
          /\ \A i \in 1..Len(checks) : checks[i].cand = candidates[i]
    /\ mpc \in {"persist", "done"} => memories = Survivors(candidates, checks)
    /\ mpc \in {"dedup", "return"} => mevents = <<"memory_extracting">>
    /\ "memory_extraction_failed" \in Range(mevents) =>
          (mpc = "done" /\ midx <= Len(memories)
              /\ mevents[Len(mevents)] = "memory_extraction_failed")
    /\ (mpc = "done" /\ "memory_extraction_failed" \notin Range(mevents)) =>
          /\ Len(SelectSeq(mevents, LAMBDA e : e = "memory_saved")) = Len(memories)
          /\ memories # << >> =>
                \E rec \in mstore :
                    /\ rec.type = memories[Len(memories)].type
                    /\ rec.content = memories[Len(memories)].content

\* C20 witness: the search failed for the first of two candidates, of which
\* the partition holds a record at similarity 0.90; the second was checked and
\* let through, and both have been saved.
C20_Witness ==
    /\ mpc = "done"
    /\ Len(checks) = 2
    /\ checks[1].failed /\ checks[1].cand = Memory("preference", 0)
    /\ Record(MaxOthers + 1, "preference", 2) \in mstore
    /\ ~checks[2].failed /\ ~checks[2].dup
    /\ mevents = <<"memory_extracting", "memory_saved", "memory_saved">>

\* A save of the persist loop raised
SaveFailed == mpc = "done" /\ midx <= Len(memories)

\* A similarity search of the dedup loop raised
SearchFailed == \E i \in 1..Len(checks) : checks[i].failed

\* C21 as stated (SpecMem): memory_extracting comes only after done, no error
\* event is yielded, and a pipeline that has ended after any failure, of the
\* extraction, of a dedup search or of a save, has yielded
\* memory_extraction_failed.
C21_AnyFailureIsReported ==
    /\ "memory_extracting" \in Range(mevents) => done_event # NoDone
    /\ "error" \notin Range(mevents)
    /\ (mpc = "done" /\ (PrimaryFailed \/ SearchFailed \/ SaveFailed)) =>
          "memory_extraction_failed" \in Range(mevents)

\* C21 amended (SpecMem): memory_extracting comes only after done; no failure
\* yields an error event or changes the done event already yielded; a save
\* that raised yields memory_extraction_failed, and nothing else does: a
\* timeout or failure of the model-based extractor and a failed similarity
\* search yield no event, the pipeline going on with the fallback candidates
\* and with the unchecked candidate.
C21_FailureIsNonFatal ==
    /\ [](/\ "memory_extracting" \in Range(mevents) => done_event # NoDone
          /\ "error" \notin Range(mevents)
          /\ mpc = "done" => (SaveFailed <=> "memory_extraction_failed" \in Range(mevents))
          /\ mpc \in {"fallback", "dedup_guard", "dedup", "return"} =>
                mevents = <<"memory_extracting">>)
    /\ [][done_event # NoDone => done_event' = done_event]_vars

\* C21 witness: after the response was delivered the model call timed out, the
\* search for the first fallback candidate failed, that candidate was saved
\* and the save of the second raised.
C21_Witness ==
    /\ done_event = BEvent("done", "response")
    /\ primary = "timeout" /\ checks # << >> /\ checks[1].failed
    /\ SaveFailed
    /\ mevents = <<"memory_extracting", "memory_saved", "memory_extraction_failed">>

\* C22 as stated (SpecMem): every save adds one record, under a key that no
\* record held, with the type and content of the survivor it is made for, and
\* leaves every record of the partition in place; a memory_saved event is
\* yielded by a save and by nothing else; and a pipeline that ended without a
\* failed save has yielded one memory_saved per survivor and none for a
\* dropped candidate.
C22_SavedUnderFreshKey ==
    /\ [][/\ (mpc = "persist" /\ midx' = midx + 1) =>
                /\ mstore \subseteq mstore'
                /\ \E rec \in mstore' \ mstore :
                      /\ rec.key \notin {r.key : r \in mstore}
                      /\ rec.type = memories[midx].type
                      /\ rec.content = memories[midx].content
                      /\ mstore' = mstore \cup {rec}
                /\ mevents' = Append(mevents, "memory_saved")
          /\ mstore' # mstore => (mpc = "persist" /\ midx' = midx + 1)
          /\ (mevents' # mevents /\ mevents'[Len(mevents')] = "memory_saved") =>
                (mpc = "persist" /\ midx' = midx + 1)]_vars
    /\ []((mpc = "done" /\ ~SaveFailed) =>
            Len(SelectSeq(mevents, LAMBDA e : e = "memory_saved")) = Len(memories))

----------------------------------------------------------------------------
(* Claims on the model loop *)

\* C23 as stated (SpecTools): for every event of the source _stream has
\* yielded at most one event, in the order of the source; every on_tool_start
\* and on_tool_end is yielded as tool_start and tool_end, whatever the state of
\* the filter, and carries the name of the tool that started or ended.
C23_ToolEventsPassThrough ==
    /\ Len(yielded) = Len(source)
    /\ \A i \in 1..Len(source) :
          /\ source[i].kind = "on_tool_start" =>
                yielded[i] = OutEvent("tool_start", source[i].name, Empty)
          /\ source[i].kind = "on_tool_end" =>
                yielded[i] = OutEvent("tool_end", source[i].name, Empty)
          /\ source[i].kind \notin {"on_tool_start", "on_tool_end"} =>
                yielded[i].type \in {"token", "none"}

----------------------------------------------------------------------------
(* Claims on closing tags without their opening tag *)

\* C24 (SpecTag): for an input that starts with an opening hidden tag, as long
\* as the closing tag of that tag has not been fed whole, the tag stays open
\* and nothing has been returned, whatever was fed after it, the closing tag
\* of the other hidden tag included; and once the input ends with the first
\* matching closing tag the span is closed, still with nothing returned.
C24_OtherCloseDoesNotEndSpan ==
    \A t \in HiddenTagSet :
        LET fed == Slice(text, 0, pos)
            k == Find(fed, CloseTag(t), Len(OpenTag(t)))
        IN  (StartsWith(fed, OpenTag(t))) =>
                /\ k = -1 => (tf.in_tag = t /\ tfOut = Empty)
                /\ (k # -1 /\ k + Len(CloseTag(t)) = Len(fed)) =>
                      (tf.in_tag = None /\ tfOut = Empty)

\* C24 witness: <think>h</analysis> has been fed and <think> is still open,
\* with nothing returned; the matching </think> is yet to come.
C24_Witness ==
    /\ text = OpenTag(Think) \o <<"h">> \o CloseTag(Analysis) \o CloseTag(Think)
    /\ pos = Len(text) - Len(CloseTag(Think))
    /\ tf.in_tag = Think
    /\ tfOut = Empty

\* s holds no complete opening hidden tag
NoOpenTag(s) == \A t \in HiddenTagSet : Find(s, OpenTag(t), 0) = -1

\* s without its closing hidden tags, read left to right from index i
RECURSIVE WithoutCloses(_, _)
WithoutCloses(s, i) ==
    IF i >= Len(s) THEN Empty
    ELSE IF \E t \in HiddenTagSet : OccursAt(s, CloseTag(t), i)
    THEN LET t == CHOOSE u \in HiddenTagSet : OccursAt(s, CloseTag(u), i)
         IN  WithoutCloses(s, i + Len(CloseTag(t)))
    ELSE <<s[i + 1]>> \o WithoutCloses(s, i + 1)

----------------------------------------------------------------------------
(* Claims on the empty feed *)

\* C26 (SpecFeed): a feed of the empty text, in whatever state the filters
\* are, returns the empty text from both and leaves the carry and the open
\* tag of the ThoughtTagFilter and the whole state of the FinalAnswerFilter
\* (its hidden-tag filter, carry, in-final, done, seen_final) as they were.
C26_EmptyFeedChangesNothing ==
    [][emptyFed' =>
          /\ tfRet' = Empty /\ tf' = tf /\ tfOut' = tfOut
          /\ visible' = Empty /\ ff' = ff]_vars

\* C26 witness: the empty text was fed while the ThoughtTagFilter was inside
\* <analysis> with a carry and the FinalAnswerFilter, inside its hidden span
\* too, had seen <final>; both still hold what they held.
C26_Witness ==
    /\ emptyFed
    /\ tf.in_tag = Analysis /\ tf.carry # Empty
    /\ ff.hidden.carry # Empty /\ ff.in_final /\ ff.seen_final /\ ~ff.done

----------------------------------------------------------------------------
(* Claims on the pattern extractor *)

\* The patterns of a type that match the message
Matching(type) == {n \in 1..Len(Patterns(type)) : findall[type][n].hit}

\* C27 as stated (SpecPat): for each of the two types at most one candidate is
\* produced; it is built from the first pattern of the type, in list order,
\* that matches the message; and no pattern of the type after the first
\* matching one is consulted.
C27_FirstMatchWins ==
    \A type \in PatternTypes :
        LET mine == {i \in 1..Len(found) : found[i].type = type}
        IN  /\ Cardinality(mine) <= 1
            /\ \A i \in mine : found[i].content = SetMin(Matching(type))
            /\ \A c \in consulted :
                  (c[1] = type /\ Matching(type) # {}) => c[2] <= SetMin(Matching(type))

\* A valid 24-hour HH:MM: two digits, a colon, two digits, the hour at most 23
\* and the minute at most 59
IsHHMM(t) ==
    /\ Len(t) = 5
    /\ t[3] = ":"
    /\ \A k \in {1, 2, 4, 5} : IsDigit(t[k])
    /\ int(SubSeq(t, 1, 2)) <= 23
    /\ int(SubSeq(t, 4, 5)) <= 59

\* The call of book_meeting_room this step makes was given a start_time
StartTimeGiven == call'.start_time # None

\* The call this step makes names no slot and gives a time that does not
\* normalize, in start_time or, with no start_time, in time_slot
TimeDoesNotNormalize ==
    IF StartTimeGiven THEN normalize_time(call'.start_time) = None
    ELSE /\ lower(strip(call'.time_slot)) \notin {<<slot>> : slot \in DOMAIN slot_map}
         /\ normalize_time(lower(strip(call'.time_slot))) = None

\* C28: a call of book_meeting_room whose start_time is given and normalizes to
\* a valid 24-hour HH:MM appends one booking that carries that time, and so
\* does its result, whatever time_slot is (a start_time already in that form is
\* carried as it is); a call whose start_time, or whose time_slot that names no
\* slot, does not normalize raises and leaves the bookings list unchanged.
C28_StartTimeOverridesOrRaises ==
    [][call'.made =>
        /\ (StartTimeGiven /\ normalize_time(call'.start_time) # None) =>
              /\ ~outcome'.raised
              /\ IsHHMM(outcome'.time)
              /\ outcome'.time = normalize_time(call'.start_time)
              /\ IsHHMM(call'.start_time) => outcome'.time = call'.start_time
              /\ bookings' = Append(bookings, [room |-> "1001", time |-> outcome'.time])
        /\ TimeDoesNotNormalize => outcome'.raised /\ bookings' = bookings]_vars

\* C28 witness: "7:30pm" is given as start_time with the slot "afternoon", after
\* an earlier booking: the booking appended and the result carry 19:30.
C28_Witness ==
    /\ call.made
    /\ call.start_time = <<"7", ":", "3", "0", "pm">>
    /\ call.time_slot = <<"afternoon">>
    /\ ~outcome.raised
    /\ outcome.time = <<"1", "9", ":", "3", "0">>
    /\ bookings = <<EarlierBooking, [room |-> "1001", time |-> <<"1", "9", ":", "3", "0">>]>>

\* C29: delete_memory returns True only when a record with the given key was
\* in the partition and the call removed it; in every other case, a missing
\* key or a failure of the store, it returns False and the store is unchanged.
C29_TrueOnlyWhenRemoved ==
    [][deletion'.called =>
        /\ deletion'.returned =>
              /\ \E r \in mstore : r.key = deleted_key'
              /\ mstore' = {r \in mstore : r.key # deleted_key'}
        /\ ~(\E r \in mstore : r.key = deleted_key') => ~deletion'.returned
        /\ ~deletion'.returned => mstore' = mstore]_vars

\* The types of the events the caller of turn t has received, in order
Types(t) == [i \in 1..Len(observed[t]) |-> observed[t][i].type]

\* The number of events of one of the types of K in the sequence of types ts
Count(ts, K) == Cardinality({i \in 1..Len(ts) : ts[i] \in K})

\* The session event grammar on a sequence of types:
\* memories (token | tool_start | tool_end)* done memory_extracting
\* memory_saved* memory_extraction_failed?, and nothing else
SessionGrammar(ts) ==
    /\ ts # << >> /\ ts[1] = "memories" /\ Count(ts, {"memories"}) = 1
    /\ Count(ts, {"done"}) = 1
    /\ \A i \in 1..Len(ts) :
          /\ ts[i] \in LoopKinds =>
                \E d \in (i + 1)..Len(ts) : ts[d] = "done"
          /\ ts[i] = "memory_extracting" => i > 1 /\ ts[i - 1] = "done"
          /\ ts[i] \in {"memory_saved", "memory_extraction_failed"} =>
                \E e \in 1..(i - 1) : ts[e] = "memory_extracting"
          /\ ts[i] = "memory_extraction_failed" =>
                \A j \in (i + 1)..Len(ts) : ts[j] # "memory_saved"
          /\ ts[i] \in {"memories", "done", "memory_extracting", "memory_saved",
                        "memory_extraction_failed"} \cup LoopKinds
    /\ Count(ts, {"memory_extracting"}) = 1
    /\ Count(ts, {"memory_extraction_failed"}) <= 1

\* C30 as stated: in every turn of run_agent_streaming, once it has ended, the
\* events received follow the session event grammar: memories first and once,
\* token, tool_start and tool_end only between it and done, memory_extracting
\* once and directly after done, memory_saved and memory_extraction_failed only
\* after it, at most one memory_extraction_failed and no memory_saved after it.
C30_EveryTurnFollowsGrammar ==
    \A t \in Turns : cpc[t] = "ended" => SessionGrammar(Types(t))

\* The pairs of types of two events that may follow one another
Follows ==
    ({"memories"} \cup LoopKinds) \X (LoopKinds \cup {"done"})
    \cup {<<"done", "memory_extracting">>,
          <<"memory_extracting", "memory_saved">>,
          <<"memory_extracting", "memory_extraction_failed">>,
          <<"memory_saved", "memory_saved">>,
          <<"memory_saved", "memory_extraction_failed">>}

\* The events of turn t before the error event that ends it, all its events
\* when the last is no error
BeforeError(t) ==
    IF Types(t) # << >> /\ Types(t)[Len(Types(t))] = "error"
    THEN SubSeq(Types(t), 1, Len(Types(t)) - 1)
    ELSE Types(t)

\* C30 (amended): at every moment of every turn the events received are a
\* beginning of the session event grammar, possibly followed by one error
\* event, after which nothing is received; a turn that ends without an error
\* event has received the whole grammar, memory_extracting included.
C30_GrammarUpToError ==
    \A t \in Turns :
        /\ Count(BeforeError(t), {"error"}) = 0
        /\ BeforeError(t) # << >> => BeforeError(t)[1] = "memories"
        /\ \A i \in 2..Len(BeforeError(t)) :
              <<BeforeError(t)[i - 1], BeforeError(t)[i]>> \in Follows
        /\ (cpc[t] = "ended" /\ Count(Types(t), {"error"}) = 0) =>
              /\ SessionGrammar(Types(t))
              /\ Types(t)[Len(Types(t))] # "done"

\* C30 witness: the first turn has ended with the whole grammar, a token and a
\* saved memory included, and the second, started while the first was
\* running, has ended with the error event alone.
C30_Witness ==
    /\ cpc[1] = "ended" /\ cpc[2] = "ended"
    /\ Types(1) = <<"memories", "token", "done", "memory_extracting", "memory_saved">>
    /\ Types(2) = <<"error">>

\* The texts of the token events _stream has yielded, in order
TokenTexts == [i \in 1..Len(SelectSeq(yielded, LAMBDA e : e.type = "token")) |->
                  SelectSeq(yielded, LAMBDA e : e.type = "token")[i].text]

\* C31 (SpecTools): every token event carries non-empty text; when the turn
\* has reached done after at least one token event, the done text is the
\* concatenation of the token texts in order; and when done carries the
\* degraded fallback text, the stripped raw output taken because no visible
\* text was emitted, no token event was yielded in the turn.
C31_TokensMakeDone ==
    /\ \A i \in 1..Len(TokenTexts) : TokenTexts[i] # Empty
    /\ (spc = "done" /\ TokenTexts # << >>) =>
          lastEvent = Event("done", Flatten(TokenTexts))
    /\ (spc = "done" /\ lastEvent.text # Flatten(TokenTexts)) =>
          /\ TokenTexts = << >>
          /\ lastEvent = Event("done", strip_hidden_reasoning(raw_response))

\* C31 witness: the final span came in two chunks, each yielded as a token, and
\* done carries both; a tool ran in between.
C31_Witness ==
    /\ spc = "done"
    /\ TokenTexts = <<<<"a">>, <<"a">>>>
    /\ lastEvent = Event("done", <<"a", "a">>)
    /\ \E i \in 1..Len(yielded) : yielded[i].type = "tool_start"

\* No write before the whole batch is checked: the store changes only in the
\* save loop, every candidate having been checked, and until then every search
\* result is a set of records of the store as the batch found it
ChecksBeforeWrites ==
    /\ [][mstore' # mstore => (mpc = "persist" /\ Len(checks) = Len(candidates))]_vars
    /\ [](mpc \notin {"persist", "done"} =>
            \A i \in 1..Len(checks) : checks[i].results \subseteq mstore)

\* Two candidates of the batch of the same type and content that both passed
\* their check
TwinsPassed(i, j) ==
    /\ i < j
    /\ candidates[i] = candidates[j]
    /\ ~checks[i].dup /\ ~checks[j].dup

\* The records of the store that hold the memory m
RecordsOf(m) == {r \in mstore : r.type = m.type /\ r.content = m.content}

PutTypes == [i \in 1..Len(puts[1]) |-> puts[1][i].type]

\* The write of a survivor has failed in turn 1
WriteFailed == "memory_extraction_failed" \in Range(mevents)

\* C33 (SpecSave): when the write of the k-th survivor fails, the store stays
\* as the k-1 earlier saves left it, then and until the end of the turn, the
\* record of the last of them in it; their k-1 memory_saved events were put
\* on the queue before exactly one memory_extraction_failed, which no event
\* follows but the end-of-stream sentinel, put without an error event; no
\* later survivor is written; and a consumer whose wait did not expire has
\* received all of them in that order when the stream has ended.
C33_PartialPersistence ==
    /\ [][WriteFailed' => mstore' = mstore]_vars
    /\ [](WriteFailed =>
            /\ midx <= Len(memories)
            /\ mevents = <<"memory_extracting">>
                            \o [i \in 1..(midx - 1) |-> "memory_saved"]
                            \o <<"memory_extraction_failed">>
            /\ midx > 1 => RecordsOf(memories[midx - 1]) # {}
            /\ \/ PutTypes = <<"memories", "done">> \o mevents
               \/ PutTypes = <<"memories", "done">> \o mevents \o <<"_SENTINEL">>
            /\ gpc[1] = "returned" => PutTypes[Len(PutTypes)] = "_SENTINEL"
            /\ (cpc[1] = "ended" /\ ~timedOut[1]) =>
                  Types(1) = <<"memories", "done">> \o mevents)

\* C33 witness: the write of the third survivor failed after two saves; the
\* stream has ended and the consumer has received both memory_saved events and
\* the failure.
C33_Witness ==
    /\ WriteFailed /\ midx = 3 /\ Len(memories) = 3
    /\ Cardinality(mstore) = 2
    /\ cpc[1] = "ended" /\ ~timedOut[1]
    /\ Types(1) = <<"memories", "done", "memory_extracting", "memory_saved", "memory_saved",
                    "memory_extraction_failed">>
    /\ PutTypes[Len(PutTypes)] = "_SENTINEL"

\* C34 (SpecChat): the assistant text the /api/chat endpoint returns holds no
\* text from inside a hidden tag span: it is the output of the model passed
\* through the hidden-tag filter.
\* ("h" is the character the model outputs hold inside hidden spans and
\* nowhere else.)
C34_ChatHidesTaggedText ==
    spc = "returned" => "h" \notin Range(lastEvent.text)

\* C35 (SpecInit): however many threads call connect_store, initialize_agent
\* and get_agent, the store connection is opened at most once, the preset
\* memories are loaded at most once and at most one agent is created, and
\* every caller gets that same store and agent (none gets an exception).
C35_InitializedOnce ==
    /\ Cardinality(effects.opened) <= 1
    /\ effects.loaded <= 1
    /\ Cardinality(effects.created) <= 1
    /\ \A t \in Callers :
          /\ ipc[t] # "raised"
          /\ ipc[t] = "done" =>
                /\ got[t].store \in {0} \cup effects.opened
                /\ got[t].agent \in {0} \cup effects.created
                /\ got[t].entry = "connect_store" => got[t].store # 0
                /\ got[t].entry = "get_agent" => got[t].agent # 0

\* C36 (SpecStream): in every state of a FinalAnswerFilter, in-final implies
\* seen_final, done implies seen_final, and in-final and done are not both
\* true; no feed takes seen_final from true to false; and no feed of a filter
\* that is done changes any of its state, its hidden-tag filter included.
C36_FinalFilterInvariants ==
    /\ [](/\ ff.in_final => ff.seen_final
          /\ ff.done => ff.seen_final
          /\ ~(ff.in_final /\ ff.done))
    /\ [][/\ ff.seen_final => ff'.seen_final
          /\ ff.done =>
                /\ ff'.hidden = ff.hidden /\ ff'.carry = ff.carry
                /\ ff'.in_final = ff.in_final /\ ff'.done /\ ff'.seen_final]_vars

\* C36 witness: the filter became done on <final>a</final> and was then fed
\* the opening of a hidden span, which its hidden-tag filter never saw.
C36_Witness ==
    /\ ff.done /\ ff.seen_final /\ ~ff.in_final
    /\ raw_response = OpenTag(Final) \o <<"a">> \o CloseTag(Final)
                        \o OpenTag(Analysis) \o <<"h">>
    /\ ff.hidden = TagFilterInit
    /\ full_response = <<"a">>

\* C37 (SpecStream): however the text is split into consecutive chunks, once
\* all of it is fed the concatenated outputs of the FinalAnswerFilter, and its
\* seen_final and done, are those of the split into one chunk, so the same
\* for any two splits.
C37_FinalChunkSplitInvariance ==
    (spc = "loop" /\ pos = Len(text)) =>
        /\ full_response = FinalFeed(FinalFilterInit, text).out
        /\ ff.seen_final = FinalFeed(FinalFilterInit, text).st.seen_final
        /\ ff.done = FinalFeed(FinalFilterInit, text).st.done

\* C37 witness: <final>a</final> was fed in more than one chunk, the last of
\* which returned nothing, and the outputs add up to the span.
C37_Witness ==
    /\ spc = "loop" /\ pos = Len(text)
    /\ text = OpenTag(Final) \o <<"a">> \o CloseTag(Final)
    /\ visible = Empty
    /\ full_response = <<"a">>
    /\ ff.done /\ ff.seen_final

-----------------------------------------------------------------------------
(* SpecNest: one ThoughtTagFilter fed texts that open a hidden tag inside an
   open hidden span *)

\* <t>h<u>h: the hidden tag u opened while the hidden tag t is open
Nest(t, u) == OpenTag(t) \o <<"h">> \o OpenTag(u) \o <<"h">>

\* Pieces of the texts: a hidden span holding a second opening tag, the
\* closing tags on their own and followed by a visible character, and a
\* visible character.
NestPieces ==
    {Nest(t, u) : t \in HiddenTagSet, u \in HiddenTagSet}
        \cup {CloseTag(t) \o <<"a">> : t \in HiddenTagSet}
        \cup {CloseTag(t) : t \in HiddenTagSet}
        \cup {<<"a">>}

NestInit ==
    /\ text \in TextsOf(NestPieces)
    /\ pos = 0
    /\ tf = TagFilterInit /\ tfRet = Empty /\ tfOut = Empty
    /\ ff = FinalFilterInit
    /\ raw_response = Empty /\ full_response = Empty /\ visible = Empty
    /\ lastEvent = NoEvent /\ spc = "idle"
    /\ BridgeIdle /\ CallerIdleInit /\ MemIdle /\ UnitIdle

NestNext == \E n \in 1..(Len(text) - pos) : TagFeedChunk(n)

SpecNest == NestInit /\ [][NestNext]_vars

\* The text fed so far
Fed == Slice(text, 0, pos)

\* C38 (SpecNest): hidden spans do not nest.  For a text that starts with
\* <t>h<u>h, t and u hidden tags: as long as no </t> was fed after it the open
\* tag is still t and nothing was emitted, whatever was fed (the opening tag
\* <u> was discarded as content); once the first </t> is wholly fed the filter
\* is in the visible state; and when the text goes on with </t>a</t> and is
\* wholly fed, the text between the two closing tags is what was emitted.
C38_HiddenSpansDoNotNest ==
    \A t \in HiddenTagSet, u \in HiddenTagSet :
        (StartsWith(text, Nest(t, u)) /\ pos >= Len(Nest(t, u))) =>
            LET k == Find(Fed, CloseTag(t), Len(Nest(t, u)))
            IN  /\ k = -1 => (tf.in_tag = t /\ tfOut = Empty)
                /\ (k # -1 /\ pos = k + Len(CloseTag(t))) =>
                       (tf.in_tag = None /\ tfOut = Empty)
                /\ (/\ text = Nest(t, u) \o CloseTag(t) \o <<"a">> \o CloseTag(t)
                    /\ pos = Len(text)) =>
                       (tf.in_tag = None /\ tfOut = <<"a">>)

\* C38 witness: <think>h<analysis>h</think>a</think> was fed in chunks, the
\* last of which was the second closing tag alone, and "a" is all that was
\* emitted.
C38_Witness ==
    /\ text = Nest(Think, Analysis) \o CloseTag(Think) \o <<"a">> \o CloseTag(Think)
    /\ pos = Len(text)
    /\ tf.in_tag = None /\ tf.carry = Empty
    /\ tfOut = <<"a">> /\ tfRet = Empty

-----------------------------------------------------------------------------
(* SpecUpd: update_memory (src/memory/extractor.py) on a store that holds the
   partitions of two users.  The store is a set of items [namespace, key,
   value], a value being a dict: a function from its field names. *)

MaxUpdates == 2

UserIds == {"u1", "u2"}

\* The namespace of a user's partition
Namespace(user_id) == <<"user_memories", user_id>>

\* The value load_preset_memories stores under preset_0
PresetValue == [type |-> "preference", content |-> "c0"]

\* The value save_memory stores under the key it drew
SavedValue(key) ==
    [type |-> "interest", content |-> "c1", source_text |-> "s", created_at |-> 0,
     key |-> key]

\* What a partition may hold before the calls: the first preset memory and a
\* memory that save_memory wrote
StoredItems ==
    {[namespace |-> Namespace(u), key |-> "preset_0", value |-> PresetValue] : u \in UserIds}
        \cup {[namespace |-> Namespace(u), key |-> "learned_a",
               value |-> SavedValue("learned_a")] : u \in UserIds}

\* The keys of the calls: the two a partition may hold and one none holds
UpdateKeys == {"preset_0", "learned_a", "learned_b"}

\* new_content and new_type of the calls; "None" stands for None, "" is the
\* empty string
NewContents == {"None", "", "c2"}
NewTypes == {"None", "fact"}

\* store.aget(namespace, key): the items of that namespace and key, none or one
aget(store, namespace, key) == {it \in store : it.namespace = namespace /\ it.key = key}

\* store.aput(namespace, key, value) of the update: the item of that namespace
\* and key is replaced
UpdPut(store, namespace, key, value) ==
    {it \in store : ~(it.namespace = namespace /\ it.key = key)}
        \cup {[namespace |-> namespace, key |-> key, value |-> value]}

\* value[f] = v on a dict
SetField(value, f, v) == [g \in DOMAIN value \cup {f} |-> IF g = f THEN v ELSE value[g]]

\* Mutant of NewValue: content and type are assigned whatever was passed.
NewValueAssignsNone(value, key, new_content, new_type, now) ==
    SetField(SetField(SetField(SetField(value, "content", new_content),
                               "type", new_type), "updated_at", now), "key", key)

\* value = dict(item.value); the two conditional assignments;
\* value["updated_at"] = now; value["key"] = key
NewValue(value, key, new_content, new_type, now) ==
    LET v1 == IF new_content # "None" THEN SetField(value, "content", new_content) ELSE value
        v2 == IF new_type # "None" THEN SetField(v1, "type", new_type) ELSE v1
    IN  SetField(SetField(v2, "updated_at", now), "key", key)

UpdInit ==
    /\ TextIdle /\ BridgeIdle /\ CallerIdleInit /\ ToolsIdle /\ FeedIdle /\ PatIdle /\ BookIdle
    /\ DelIdle /\ StartIdle
    /\ message = [pref |-> FALSE, interest |-> FALSE]
    /\ mstore \in SUBSET StoredItems
    /\ mpc = "idle"
    /\ memories = << >> /\ candidates = << >> /\ unique_memories = << >> /\ midx = 0
    /\ primary = "none" /\ phases = << >> /\ checks = << >> /\ mevents = << >>
    /\ done_event = NoDone
    /\ update = NoUpdate
    /\ updated = {}

UpdFrame ==
    UNCHANGED <<textVars, bridgeVars, idleVars, toolVars, feedVars, patVars, bookVars, delVars,
                initVars, message, mpc, memories, candidates, unique_memories, midx, primary,
                phases, checks, mevents, done_event>>

\* update_memory(store, user_id, key, new_content, new_type), the clock
\* reading now + 1 at the call
update_memory(user_id, key, new_content, new_type) ==
    /\ update' = [called |-> TRUE, user_id |-> user_id, key |-> key,
                  new_content |-> new_content, new_type |-> new_type,
                  now |-> update.now + 1]
    /\ LET namespace == Namespace(user_id)
           item == aget(mstore, namespace, key)
       IN  IF item = {}
           THEN /\ updated' = {}
                /\ UNCHANGED mstore
           ELSE \E it \in item :
                   \E value \in {NewValue(it.value, key, new_content, new_type,
                                          update.now + 1)} :
                       /\ mstore' = UpdPut(mstore, namespace, key, value)
                       /\ updated' = {value}
    /\ UpdFrame

UpdNext ==
    /\ update.now < MaxUpdates
    /\ \E user_id \in UserIds, key \in UpdateKeys,
          new_content \in NewContents, new_type \in NewTypes :
          update_memory(user_id, key, new_content, new_type)

SpecUpd == UpdInit /\ [][UpdNext]_vars

\* The field f is in both dicts with one value, or in neither
SameField(old, new, f) ==
    /\ f \in DOMAIN old <=> f \in DOMAIN new
    /\ f \in DOMAIN old => new[f] = old[f]

\* The field f of new is v when a value was passed, and as in old when None was
Passed(old, new, f, v) ==
    IF v # "None" THEN f \in DOMAIN new /\ new[f] = v ELSE SameField(old, new, f)

\* C39 (SpecUpd): a call of update_memory on a key absent from the user's
\* partition returns None and leaves the store as it was; on an existing key
\* the item of that key stays in the partition under the same key, its content
\* and type are the values passed where one was passed and the stored ones
\* where None was, updated_at is the time of the call, the key field is the
\* key, every other stored field is kept and none is added, the dict returned
\* is the stored one, and every other item of the store is unchanged.
C39_UpdateChangesOnlyWhatIsPassed ==
    [][LET a == update'
           old == aget(mstore, Namespace(a.user_id), a.key)
           new == aget(mstore', Namespace(a.user_id), a.key)
       IN  IF old = {}
           THEN updated' = {} /\ mstore' = mstore
           ELSE /\ Cardinality(new) = 1
                /\ mstore' \ new = mstore \ old
                /\ \A o \in old, n \in new :
                      /\ Passed(o.value, n.value, "content", a.new_content)
                      /\ Passed(o.value, n.value, "type", a.new_type)
                      /\ n.value.updated_at = a.now
                      /\ n.value.key = a.key
                      /\ "key" \in DOMAIN o.value => o.value.key = a.key
                      /\ \A f \in (DOMAIN o.value \cup DOMAIN n.value)
                                    \ {"content", "type", "updated_at", "key"} :
                            SameField(o.value, n.value, f)
                      /\ updated' = {n.value}]_vars

\* C39 witness: the second call gave the saved memory of u1 a new content and
\* no type; the record has the new content, its type, source text and creation
\* time, and the time of the call; the record of u2 under the same key is as
\* save_memory wrote it.
C39_Witness ==
    /\ update = [called |-> TRUE, user_id |-> "u1", key |-> "learned_a",
                 new_content |-> "c2", new_type |-> "None", now |-> 2]
    /\ updated = {[type |-> "interest", content |-> "c2", source_text |-> "s",
                   created_at |-> 0, key |-> "learned_a", updated_at |-> 2]}
    /\ [namespace |-> Namespace("u1"), key |-> "learned_a",
        value |-> [type |-> "interest", content |-> "c2", source_text |-> "s",
                   created_at |-> 0, key |-> "learned_a", updated_at |-> 2]] \in mstore
    /\ [namespace |-> Namespace("u2"), key |-> "learned_a",
        value |-> SavedValue("learned_a")] \in mstore

====
